---- MODULE Spec2Model ----
(***************************************************************************)
(* Model of the ANPP protocol engine of imu_advanced_navigation_anpp:      *)
(* the packet header and its two checksums, the acknowledge packet, the    *)
(* length check of the fixed-size packet decoders and the deadline-bounded *)
(* wait operations of the exchange protocol.                               *)
(*                                                                         *)
(* Bytes are the integers 0..255 and every uint8_t / uint16_t computation  *)
(* is reduced modulo 2^8 / 2^16 where the C++ code truncates.              *)
(***************************************************************************)
EXTENDS Integers, Sequences, FiniteSets, TLC

VARIABLES
    header,     \* the Header under test (Protocol.hpp:148)
    payload,    \* the byte range [begin, end) handed to Header / isPacketValid
    arg_id,     \* packet_id argument of the last Header(packet_id, begin, end)
    hop,        \* last operation applied to `header`
    edits,      \* number of direct field assignments since the last constructor
    ack,        \* the Acknowledge under test (Protocol.hpp:215)
    ptype,      \* packet type whose unmarshal was called last
    buf,        \* byte range handed to that unmarshal
    outcome,    \* result of that unmarshal: "none", "ok" or "length_error"
    touched,    \* offsets of buf dereferenced by that unmarshal
    pc,         \* state of the current exchange-protocol call
    call,       \* parameters of the current exchange-protocol call
    rx,         \* packets the transport holds and has not delivered yet
    elapsed,    \* time spent in the current call since it was entered
    log,        \* packets the current call obtained from the transport, in order
    ret,        \* value returned (or carried by the failure) of the call
    obj,        \* the packet struct at hand: built by the caller or decoded
    out,        \* the buffer a marshal wrote into
    result,     \* value an unmarshal is building or has returned
    pos,        \* offset of `begin` in the loop of a variable-length unmarshal
    tx,         \* byte ranges written to the transport, one per write call
    stream,     \* every packet the device has sent on the transport, in order
    taken,      \* number of packets of `stream` the wait calls have read
    previous    \* how the caller's previous exchange-protocol call ended

headerVars == <<header, payload, arg_id, hop, edits>>
ackVars    == <<ack>>
codecVars  == <<ptype, buf, outcome, touched>>
waitVars   == <<pc, call, rx, elapsed, log, ret>>
valueVars  == <<obj, out, result, pos>>
sendVars   == <<tx>>
sessionVars == <<stream, taken, previous>>
vars == <<header, payload, arg_id, hop, edits, ack,
          ptype, buf, outcome, touched, pc, call, rx, elapsed, log, ret,
          obj, out, result, pos, tx, stream, taken, previous>>

Byte == 0..255

(***************************************************************************)
(* Bit operations on naturals.                                             *)
(***************************************************************************)
RECURSIVE BitXor(_, _)
BitXor(a, b) ==
    IF a = 0 THEN b
    ELSE IF b = 0 THEN a
    ELSE (((a % 2) + (b % 2)) % 2) + 2 * BitXor(a \div 2, b \div 2)

\* a ^ b for two bytes, tabulated once
XorByte == [a \in Byte |-> [b \in Byte |-> BitXor(a, b)]]

(***************************************************************************)
(* protocol::crc : boost::crc_ccitt_type, i.e. crc_optimal<16, 0x1021,     *)
(* 0xFFFF, 0, false, false>: polynomial 0x1021, initial remainder 0xFFFF,  *)
(* no reflection, no final xor, one table lookup per byte.                 *)
(***************************************************************************)
CRC_POLY == 4129
CRC_INIT == 65535

\* remainder after shifting n more zero bits through the register
RECURSIVE crcShift(_, _)
crcShift(rem, n) ==
    IF n = 0 THEN rem
    ELSE IF rem >= 32768
         THEN crcShift(BitXor((rem * 2) % 65536, CRC_POLY), n - 1)
         ELSE crcShift((rem * 2) % 65536, n - 1)

crc_table == [b \in Byte |-> crcShift(b * 256, 8)]

\* rem = (rem << 8) ^ table[(rem >> 8) ^ byte], on 16 bits
crcByte(rem, byte) ==
    LET t == crc_table[XorByte[rem \div 256][byte]]
    IN XorByte[rem % 256][t \div 256] * 256 + (t % 256)

\* process_bytes over p[lo..hi]; the range is split in halves to keep the
\* evaluation shallow, the left half being evaluated before the right one
RECURSIVE crcRange(_, _, _, _)
crcRange(rem, p, lo, hi) ==
    IF lo > hi THEN rem
    ELSE IF lo = hi THEN crcByte(rem, p[lo])
    ELSE LET mid == (lo + hi) \div 2
             left == crcRange(rem, p, lo, mid)
         IN IF left >= 0 THEN crcRange(left, p, mid + 1, hi) ELSE left

crc(p) == crcRange(CRC_INIT, p, 1, Len(p))

(***************************************************************************)
(* Header (Protocol.hpp:148, Protocol.cpp:44-91)                           *)
(***************************************************************************)
HeaderFields == {"header_checksum", "packet_id", "payload_length",
                 "payload_checksum_lsb", "payload_checksum_msb"}

\* mutant: every field is zero-initialised
HeaderDefault_AllZero ==
    [header_checksum |-> 0, packet_id |-> 0, payload_length |-> 0,
     payload_checksum_lsb |-> 0, payload_checksum_msb |-> 0]

\* Header::Header()
HeaderDefault ==
    [header_checksum |-> 1, packet_id |-> 0, payload_length |-> 0,
     payload_checksum_lsb |-> 0, payload_checksum_msb |-> 0]

\* mutant: the increment of the two's complement is forgotten
computeHeaderChecksum_NoIncrement(h) ==
    BitXor(h.packet_id + h.payload_length
           + h.payload_checksum_lsb + h.payload_checksum_msb, 255) % 256

\* Header::computeHeaderChecksum: the sum is an int, the result a uint8_t
computeHeaderChecksum(h) ==
    (BitXor(h.packet_id + h.payload_length
            + h.payload_checksum_lsb + h.payload_checksum_msb, 255) + 1) % 256

\* mutant: the top bit of the checksum is not compared
isValid_SevenBits(h) == h.header_checksum % 128 = computeHeaderChecksum(h) % 128

\* Header::isValid
isValid(h) == h.header_checksum = computeHeaderChecksum(h)

\* mutant: the two checksum bytes are stored swapped
Header_SwappedChecksum(packet_id, p) ==
    LET checksum == crc(p)
        h0 == [header_checksum |-> 0,
               packet_id |-> packet_id,
               payload_length |-> Len(p) % 256,
               payload_checksum_lsb |-> (checksum \div 256) % 256,
               payload_checksum_msb |-> checksum % 256]
    IN [h0 EXCEPT !.header_checksum = computeHeaderChecksum(h0)]

\* Header::Header(packet_id, begin, end); p is the range [begin, end)
Header(packet_id, p) ==
    LET checksum == crc(p)
        h0 == [header_checksum |-> 0,
               packet_id |-> packet_id,
               payload_length |-> Len(p) % 256,
               payload_checksum_lsb |-> checksum % 256,
               payload_checksum_msb |-> (checksum \div 256) % 256]
    IN [h0 EXCEPT !.header_checksum = computeHeaderChecksum(h0)]

\* mutant: the length comparison is dropped
isPacketValid_NoLength(h, p) ==
    LET checksum == crc(p)
    IN /\ h.payload_checksum_lsb = checksum % 256
       /\ h.payload_checksum_msb = (checksum \div 256) % 256

\* Header::isPacketValid
isPacketValid(h, p) ==
    IF h.payload_length # Len(p)
    THEN FALSE
    ELSE LET checksum == crc(p)
         IN /\ h.payload_checksum_lsb = checksum % 256
            /\ h.payload_checksum_msb = (checksum \div 256) % 256

(***************************************************************************)
(* Acknowledge (Protocol.hpp:203-263, Protocol.cpp:93-125)                 *)
(***************************************************************************)
ACK_SUCCESS                       == 0
ACK_FAILED_PACKET_VALIDATION_CRC  == 1
ACK_FAILED_PACKET_VALIDATION_SIZE == 2
ACK_FAILED_OUT_OF_RANGE           == 3
ACK_FAILED_SYSTEM_FLASH_FAILURE   == 4
ACK_FAILED_SYSTEM_NOT_READY       == 5
ACK_FAILED_UNKNOWN_PACKET         == 6

AckIdFields == {"acked_packet_id", "acked_payload_checksum_lsb",
                "acked_payload_checksum_msb"}

\* Acknowledge{ b0, b1, b2, b3 }
Acknowledge(b0, b1, b2, b3) ==
    [acked_packet_id |-> b0, acked_payload_checksum_lsb |-> b1,
     acked_payload_checksum_msb |-> b2, result |-> b3]

\* mutant: the high checksum byte is not compared
isMatching_NoMsb(a, h) ==
    /\ a.acked_packet_id = h.packet_id
    /\ a.acked_payload_checksum_lsb = h.payload_checksum_lsb

\* Acknowledge::isMatching
isMatching(a, h) ==
    /\ a.acked_packet_id = h.packet_id
    /\ a.acked_payload_checksum_lsb = h.payload_checksum_lsb
    /\ a.acked_payload_checksum_msb = h.payload_checksum_msb

\* Acknowledge::isSuccess
isSuccess(a) == a.result = ACK_SUCCESS

\* Acknowledge::isPacketValidationFailure
isPacketValidationFailure(a) ==
    \/ a.result = ACK_FAILED_PACKET_VALIDATION_CRC
    \/ a.result = ACK_FAILED_PACKET_VALIDATION_SIZE

\* mutant: the unknown-packet code is left out
isProtocolError_OutOfRangeOnly(a) == a.result = ACK_FAILED_OUT_OF_RANGE

\* Acknowledge::isProtocolError
isProtocolError(a) ==
    \/ a.result = ACK_FAILED_OUT_OF_RANGE
    \/ a.result = ACK_FAILED_UNKNOWN_PACKET

\* Acknowledge::isSystemError
isSystemError(a) == a.result = ACK_FAILED_SYSTEM_FLASH_FAILURE

\* Acknowledge::isNotReady
isNotReady(a) == a.result = ACK_FAILED_SYSTEM_NOT_READY

(***************************************************************************)
(* Fixed-size packets with an unmarshal (Protocol.hpp:215-1247).           *)
(***************************************************************************)
FixedTypes ==
    {"Acknowledge", "BootMode", "DeviceInformation", "SystemState", "UnixTime",
     "Status", "GeodeticPositionStandardDeviation", "NEDVelocityStandardDeviation",
     "EulerOrientationStandardDeviation", "RawSensors", "RawGNSS", "Satellites",
     "NEDVelocity", "BodyVelocity", "Acceleration", "BodyAcceleration",
     "QuaternionOrientation", "AngularVelocity", "AngularAcceleration",
     "LocalMagneticField", "PacketTimerPeriod", "BaudRates", "Alignment",
     "FilterOptions", "MagneticCalibrationValues", "MagneticCalibrationStatus"}

\* static constexpr int SIZE of each struct
SIZE ==
    [Acknowledge |-> 4, BootMode |-> 1, DeviceInformation |-> 24,
     SystemState |-> 100, UnixTime |-> 8, Status |-> 4,
     GeodeticPositionStandardDeviation |-> 12,
     NEDVelocityStandardDeviation |-> 12,
     EulerOrientationStandardDeviation |-> 12,
     RawSensors |-> 48, RawGNSS |-> 74, Satellites |-> 13,
     NEDVelocity |-> 12, BodyVelocity |-> 12, Acceleration |-> 12,
     BodyAcceleration |-> 16, QuaternionOrientation |-> 16,
     AngularVelocity |-> 12, AngularAcceleration |-> 12,
     LocalMagneticField |-> 12, PacketTimerPeriod |-> 4, BaudRates |-> 17,
     Alignment |-> 73, FilterOptions |-> 17, MagneticCalibrationValues |-> 49,
     MagneticCalibrationStatus |-> 3]

\* n members of w bytes each
Members(w, n) == [i \in 1..n |-> w]

\* widths in bytes of the data members of each packed struct, in declaration
\* order (arrays flattened)
StructMembers ==
    [Acknowledge |-> Members(1, 4),
     BootMode |-> Members(1, 1),
     DeviceInformation |-> Members(4, 6),
     SystemState |-> <<2, 2, 4, 4>> \o Members(8, 3) \o Members(4, 16),
     UnixTime |-> Members(4, 2),
     Status |-> Members(2, 2),
     GeodeticPositionStandardDeviation |-> Members(4, 3),
     NEDVelocityStandardDeviation |-> Members(4, 3),
     EulerOrientationStandardDeviation |-> Members(4, 3),
     RawSensors |-> Members(4, 12),
     RawGNSS |-> Members(4, 2) \o Members(8, 3) \o Members(4, 10) \o <<2>>,
     Satellites |-> Members(4, 2) \o Members(1, 5),
     NEDVelocity |-> Members(4, 3),
     BodyVelocity |-> Members(4, 3),
     Acceleration |-> Members(4, 3),
     BodyAcceleration |-> Members(4, 4),
     QuaternionOrientation |-> Members(4, 4),
     AngularVelocity |-> Members(4, 3),
     AngularAcceleration |-> Members(4, 3),
     LocalMagneticField |-> Members(4, 3),
     PacketTimerPeriod |-> <<1, 1, 2>>,
     BaudRates |-> <<1>> \o Members(4, 4),
     Alignment |-> <<1>> \o Members(4, 18),
     FilterOptions |-> Members(1, 17),
     MagneticCalibrationValues |-> <<1>> \o Members(4, 12),
     MagneticCalibrationStatus |-> Members(1, 3)]

RECURSIVE SumSeq(_)
SumSeq(q) == IF q = <<>> THEN 0 ELSE q[1] + SumSeq(Tail(q))

\* sizeof(T) of a packed struct
sizeof(t) == SumSeq(StructMembers[t])

\* the unmarshal functions that compare the range with sizeof(T); the others
\* compare it with SIZE
ChecksSizeof ==
    {"Acknowledge", "BootMode", "DeviceInformation", "SystemState", "UnixTime",
     "Status", "GeodeticPositionStandardDeviation", "NEDVelocityStandardDeviation",
     "EulerOrientationStandardDeviation", "RawSensors"}

expectedSize(t) == IF t \in ChecksSizeof THEN sizeof(t) ELSE SIZE[t]

\* reads of w bytes at each of the offsets
At(w, offsets) == {<<o, w>> : o \in offsets}
\* base, base + stride, ... (n offsets)
Every(base, stride, n) == {base + stride * i : i \in 0..(n - 1)}

\* <<offset, width>> of every read an unmarshal makes once the length check
\* has passed: begin[i] and std::copy read 1 byte, read16/read32/read64 read
\* 2/4/8 bytes
Reads ==
    [Acknowledge |-> At(1, 0..3),
     BootMode |-> At(1, {0}),
     DeviceInformation |-> At(4, Every(0, 4, 6)),
     SystemState |->
         At(2, {0, 2}) \cup At(4, {4, 8, 60}) \cup At(8, Every(12, 8, 3))
         \cup At(4, Every(36, 4, 3)) \cup At(4, Every(48, 4, 3))
         \cup At(4, Every(64, 4, 3)) \cup At(4, Every(76, 4, 3))
         \cup At(4, Every(88, 4, 3)),
     UnixTime |-> At(4, {0, 4}),
     Status |-> At(2, {0, 2}),
     GeodeticPositionStandardDeviation |-> At(4, {0, 4, 8}),
     NEDVelocityStandardDeviation |-> At(4, {0, 4, 8}),
     EulerOrientationStandardDeviation |-> At(4, {0, 4, 8}),
     RawSensors |->
         At(4, Every(0, 4, 3)) \cup At(4, Every(12, 4, 3))
         \cup At(4, Every(24, 4, 3)) \cup At(4, {36, 40, 44}),
     RawGNSS |->
         At(4, {0, 4}) \cup At(8, Every(8, 8, 3)) \cup At(4, Every(32, 4, 3))
         \cup At(4, Every(44, 4, 3)) \cup At(4, {56, 60, 64, 68}) \cup At(2, {72}),
     Satellites |-> At(4, {0, 4}) \cup At(1, 8..12),
     NEDVelocity |-> At(4, {0, 4, 8}),
     BodyVelocity |-> At(4, {0, 4, 8}),
     Acceleration |-> At(4, {0, 4, 8}),
     BodyAcceleration |-> At(4, {0, 4, 8, 12}),
     QuaternionOrientation |-> At(4, {0, 4, 8, 12}),
     AngularVelocity |-> At(4, {0, 4, 8}),
     AngularAcceleration |-> At(4, {0, 4, 8}),
     LocalMagneticField |-> At(4, {0, 4, 8}),
     PacketTimerPeriod |-> At(1, {1}) \cup At(2, {2}),
     BaudRates |-> At(4, {1, 5, 9}),
     Alignment |->
         At(4, Every(1, 4, 9)) \cup At(4, Every(37, 4, 3))
         \cup At(4, Every(49, 4, 3)) \cup At(4, Every(61, 4, 3)),
     FilterOptions |-> At(1, 1..16),
     MagneticCalibrationValues |-> At(4, Every(1, 4, 3)) \cup At(4, Every(13, 4, 9)),
     MagneticCalibrationStatus |-> At(1, 0..2)]

\* offsets of the range dereferenced by a successful unmarshal
readOffsets(t) == UNION {r[1]..(r[1] + r[2] - 1) : r \in Reads[t]}

\* mutant: only a range that is too short is refused
lengthMismatch_ShortOnly(t, n) == n < expectedSize(t)

\* if (end - begin != SIZE)  /  if (end - begin != sizeof(T))
lengthMismatch(t, n) == n # expectedSize(t)

\* T::unmarshal(begin, end) on the range b: the length check comes first and
\* throws std::length_error; the reads follow it
unmarshal(t, b) ==
    IF lengthMismatch(t, Len(b))
    THEN [status |-> "length_error", reads |-> {}]
    ELSE [status |-> "ok", reads |-> readOffsets(t)]

\* static constexpr int ID of each struct
ID ==
    [Acknowledge |-> 0, BootMode |-> 2, DeviceInformation |-> 3,
     SystemState |-> 20, UnixTime |-> 21, Status |-> 23,
     GeodeticPositionStandardDeviation |-> 24,
     NEDVelocityStandardDeviation |-> 25,
     EulerOrientationStandardDeviation |-> 26,
     RawSensors |-> 28, RawGNSS |-> 29, Satellites |-> 30,
     NEDVelocity |-> 35, BodyVelocity |-> 36, Acceleration |-> 37,
     BodyAcceleration |-> 38, QuaternionOrientation |-> 40,
     AngularVelocity |-> 42, AngularAcceleration |-> 43,
     LocalMagneticField |-> 50, PacketTimerPeriod |-> 180, BaudRates |-> 182,
     Alignment |-> 185, FilterOptions |-> 186, MagneticCalibrationValues |-> 189,
     MagneticCalibrationStatus |-> 191]

\* mutant: the result code is taken from the wrong byte
AcknowledgeUnmarshal_WrongResultByte(b) == Acknowledge(b[1], b[2], b[3], b[3])

\* Acknowledge::unmarshal once the length check has passed:
\* Acknowledge{ begin[0], begin[1], begin[2], begin[3] }
AcknowledgeUnmarshal(b) == Acknowledge(b[1], b[2], b[3], b[4])

\* BootMode::unmarshal once the length check has passed: BootMode{ *begin }
BootModeUnmarshal(b) == [boot_mode |-> b[1]]

(***************************************************************************)
(* Little-endian helpers.  A 16-bit value is a natural below 2^16.  A      *)
(* 32-bit value (uint32_t, or the bit pattern of a float) is kept as its   *)
(* two 16-bit halves <<low, high>>, low half first, so that every bit      *)
(* pattern is represented exactly.                                         *)
(***************************************************************************)
\* read16: b0 | b1 << 8 of the two bytes at offset o of the range b
read16(b, o) == b[o + 1] + 256 * b[o + 2]

\* read32: b0 | b1 << 8 | b2 << 16 | b3 << 24 of the four bytes at offset o
read32(b, o) == <<b[o + 1] + 256 * b[o + 2], b[o + 3] + 256 * b[o + 4]>>

\* out[o], out[o + 1], ... = bytes; the rest of the buffer is left as it is
put(buffer, o, bytes) ==
    [i \in 1..Len(buffer) |->
        IF i > o /\ i <= o + Len(bytes) THEN bytes[i - o] ELSE buffer[i]]

\* write16: out[0] = value & 0xFF; out[1] = (value >> 8) & 0xFF
write16(buffer, o, v) == put(buffer, o, <<v % 256, (v \div 256) % 256>>)

\* mutant: the most significant byte is written first
write32_BigEndian(buffer, o, v) ==
    put(buffer, o, <<(v[2] \div 256) % 256, v[2] % 256,
                     (v[1] \div 256) % 256, v[1] % 256>>)

\* write32: out[i] = (value >> 8 i) & 0xFF for i = 0..3
write32(buffer, o, v) ==
    put(buffer, o, <<v[1] % 256, (v[1] \div 256) % 256,
                     v[2] % 256, (v[2] \div 256) % 256>>)

\* read64: b0 | b1 << 8 | ... | b7 << 56 of the eight bytes at offset o, as
\* four 16-bit words, low word first
read64(b, o) ==
    <<b[o + 1] + 256 * b[o + 2], b[o + 3] + 256 * b[o + 4],
      b[o + 5] + 256 * b[o + 6], b[o + 7] + 256 * b[o + 8]>>

\* write64: out[1] = (value >> 8) & 0xFF; ... out[7] = (value >> 56) & 0xFF;
\* there is no assignment to out[0]
write64(buffer, o, v) ==
    put(buffer, o + 1, <<(v[1] \div 256) % 256,
                         v[2] % 256, (v[2] \div 256) % 256,
                         v[3] % 256, (v[3] \div 256) % 256,
                         v[4] % 256, (v[4] \div 256) % 256>>)

\* for (i = 0; i < n; ++i) write32(out + o + 4 * i, a[i])
RECURSIVE writeArray32(_, _, _, _)
writeArray32(buffer, o, a, n) ==
    IF n = 0 THEN buffer
    ELSE write32(writeArray32(buffer, o, a, n - 1), o + 4 * (n - 1), a[n])

\* for (i = 0; i < n; ++i) a[i] = read32(begin + o + 4 * i)
readArray32(b, o, n) == [i \in 1..n |-> read32(b, o + 4 * (i - 1))]

Zero32 == <<0, 0>>      \* static_cast<uint32_t>(0)

(***************************************************************************)
(* marshal of the packets that are both sent and received.  A marshal      *)
(* takes the struct and the buffer `out` points into and gives the buffer  *)
(* as written and the offset of the iterator it returns.                   *)
(***************************************************************************)
\* BootMode::marshal
BootModeMarshal(x, buffer) ==
    [out |-> put(buffer, 0, <<x.boot_mode>>), end |-> 1]

\* PacketTimerPeriod::marshal
PacketTimerPeriodMarshal(x, buffer) ==
    [out |-> write16(put(buffer, 0, <<x.permanent, x.utc_synchronization>>),
                     2, x.period),
     end |-> SIZE["PacketTimerPeriod"]]

\* BaudRates::marshal
BaudRatesMarshal(x, buffer) ==
    LET b0 == put(buffer, 0, <<x.permanent>>)
        b1 == write32(b0, 1, x.primary_port)
        b2 == write32(b1, 5, x.gpio)
        b3 == write32(b2, 9, x.auxiliary_rs232)
    IN [out |-> write32(b3, 13, Zero32), end |-> 17]

\* Alignment::marshal
AlignmentMarshal(x, buffer) ==
    LET b0 == put(buffer, 0, <<x.permanent>>)
        b1 == writeArray32(b0, 1, x.dcm, 9)
        b2 == writeArray32(b1, 37, x.gnss_antenna_offset_xyz, 3)
        b3 == writeArray32(b2, 49, x.odometer_offset_xyz, 3)
    IN [out |-> writeArray32(b3, 61, x.external_data_offset_xyz, 3),
        end |-> SIZE["Alignment"]]

\* the bytes of a FilterOptions object from &permanent to reserved_1 + 9
FilterOptionsBytes(x) ==
    <<x.permanent, x.vehicle_type, x.enabled_internal_gnss, x.reserved_0,
      x.enabled_atmospheric_altitude, x.enabled_velocity_heading,
      x.enabled_reversing_detection, x.enabled_motion_analysis>> \o x.reserved_1

\* FilterOptions::marshal: std::copy(&permanent, reserved_1 + 9, out)
FilterOptionsMarshal(x, buffer) ==
    [out |-> put(buffer, 0, FilterOptionsBytes(x)),
     end |-> Len(FilterOptionsBytes(x))]

\* MagneticCalibrationValues::marshal
MagneticCalibrationValuesMarshal(x, buffer) ==
    LET b0 == put(buffer, 0, <<x.permanent>>)
        b1 == writeArray32(b0, 1, x.hard_iron_bias_xyz, 3)
    IN [out |-> writeArray32(b1, 13, x.soft_iron_transformation, 9),
        end |-> SIZE["MagneticCalibrationValues"]]

MarshalTypes ==
    {"BootMode", "PacketTimerPeriod", "BaudRates", "Alignment", "FilterOptions",
     "MagneticCalibrationValues"}

\* x.marshal(out) for a packet x of type t
marshal(t, x, buffer) ==
    CASE t = "BootMode" -> BootModeMarshal(x, buffer)
      [] t = "PacketTimerPeriod" -> PacketTimerPeriodMarshal(x, buffer)
      [] t = "BaudRates" -> BaudRatesMarshal(x, buffer)
      [] t = "Alignment" -> AlignmentMarshal(x, buffer)
      [] t = "FilterOptions" -> FilterOptionsMarshal(x, buffer)
      [] t = "MagneticCalibrationValues" ->
             MagneticCalibrationValuesMarshal(x, buffer)

(***************************************************************************)
(* unmarshal of the same packets, once the length check has passed.        *)
(***************************************************************************)
\* mutant: the permanent flag is taken from the wire
PacketTimerPeriodUnmarshal_WirePermanent(b) ==
    [permanent |-> b[1], utc_synchronization |-> b[2], period |-> read16(b, 2)]

\* PacketTimerPeriod::unmarshal
PacketTimerPeriodUnmarshal(b) ==
    [permanent |-> 0, utc_synchronization |-> b[2], period |-> read16(b, 2)]

\* BaudRates::unmarshal
BaudRatesUnmarshal(b) ==
    [permanent |-> 0, primary_port |-> read32(b, 1), gpio |-> read32(b, 5),
     auxiliary_rs232 |-> read32(b, 9), reserved |-> Zero32]

\* Alignment::unmarshal
AlignmentUnmarshal(b) ==
    [permanent |-> 0,
     dcm |-> readArray32(b, 1, 9),
     gnss_antenna_offset_xyz |-> readArray32(b, 37, 3),
     odometer_offset_xyz |-> readArray32(b, 49, 3),
     external_data_offset_xyz |-> readArray32(b, 61, 3)]

\* FilterOptions::unmarshal: out.permanent = 0, then
\* std::copy(begin + 1, end, &out.vehicle_type)
FilterOptionsUnmarshal(b) ==
    [permanent |-> 0, vehicle_type |-> b[2], enabled_internal_gnss |-> b[3],
     reserved_0 |-> b[4], enabled_atmospheric_altitude |-> b[5],
     enabled_velocity_heading |-> b[6], enabled_reversing_detection |-> b[7],
     enabled_motion_analysis |-> b[8], reserved_1 |-> SubSeq(b, 9, 17)]

\* MagneticCalibrationValues::unmarshal
MagneticCalibrationValuesUnmarshal(b) ==
    [permanent |-> 0,
     hard_iron_bias_xyz |-> readArray32(b, 1, 3),
     soft_iron_transformation |-> readArray32(b, 13, 9)]

\* for (i = 0; i < n; ++i) a[i] = read64(begin + o + 8 * i)
readArray64(b, o, n) == [i \in 1..n |-> read64(b, o + 8 * (i - 1))]

\* mutant: g is read at the offset of rpy[0]
SystemStateUnmarshal_GFromRpy(b) ==
    [system_status |-> read16(b, 0),
     filter_status |-> read16(b, 2),
     unix_time_seconds |-> read32(b, 4),
     unix_time_microseconds |-> read32(b, 8),
     g |-> read32(b, 64),
     lat_lon_z |-> readArray64(b, 12, 3),
     velocity_ned |-> readArray32(b, 36, 3),
     body_acceleration_xyz |-> readArray32(b, 48, 3),
     rpy |-> readArray32(b, 64, 3),
     angular_velocity |-> readArray32(b, 76, 3),
     lat_lon_z_stddev |-> readArray32(b, 88, 3)]

\* SystemState::unmarshal; floats and doubles are kept as their bit patterns
SystemStateUnmarshal(b) ==
    [system_status |-> read16(b, 0),
     filter_status |-> read16(b, 2),
     unix_time_seconds |-> read32(b, 4),
     unix_time_microseconds |-> read32(b, 8),
     g |-> read32(b, 60),
     lat_lon_z |-> readArray64(b, 12, 3),
     velocity_ned |-> readArray32(b, 36, 3),
     body_acceleration_xyz |-> readArray32(b, 48, 3),
     rpy |-> readArray32(b, 64, 3),
     angular_velocity |-> readArray32(b, 76, 3),
     lat_lon_z_stddev |-> readArray32(b, 88, 3)]

\* the struct T::unmarshal returns for a range that passed the length check
decode(t, b) ==
    CASE t = "Acknowledge" -> AcknowledgeUnmarshal(b)
      [] t = "BootMode" -> BootModeUnmarshal(b)
      [] t = "SystemState" -> SystemStateUnmarshal(b)
      [] t = "PacketTimerPeriod" -> PacketTimerPeriodUnmarshal(b)
      [] t = "BaudRates" -> BaudRatesUnmarshal(b)
      [] t = "Alignment" -> AlignmentUnmarshal(b)
      [] t = "FilterOptions" -> FilterOptionsUnmarshal(b)
      [] t = "MagneticCalibrationValues" -> MagneticCalibrationValuesUnmarshal(b)

(***************************************************************************)
(* Variable-length packets: PacketPeriods and DetailedSatellites.          *)
(***************************************************************************)
MIN_SIZE    == 2    \* PacketPeriods::MIN_SIZE
PERIOD_SIZE == 5    \* PacketPeriods::PERIOD_SIZE
SatelliteInfo_SIZE == 7     \* SatelliteInfo::SIZE

\* mutant: a range that holds the two leading bytes only is refused
periodsLengthError_StrictMin(n) ==
    IF n <= MIN_SIZE THEN TRUE ELSE (n - MIN_SIZE) % PERIOD_SIZE # 0

\* PacketPeriods::unmarshal: if ((end - begin) < MIN_SIZE) throw ...
\* else if ((end - begin - MIN_SIZE) % PERIOD_SIZE != 0) throw ...
periodsLengthError(n) ==
    IF n < MIN_SIZE THEN TRUE ELSE (n - MIN_SIZE) % PERIOD_SIZE # 0

\* std::map<uint8_t, uint32_t> result;
EmptyPeriods == [id \in {} |-> Zero32]

\* mutant: an id the mapping already holds keeps its period
periodsInsert_KeepFirst(m, b, o) ==
    [id \in DOMAIN m \cup {b[o + 1]} |->
        IF id \in DOMAIN m THEN m[id] ELSE read32(b, o + 1)]

\* result[*begin] = read32<uint32_t>(begin + 1), begin being at offset o
periodsInsert(m, b, o) ==
    [id \in DOMAIN m \cup {b[o + 1]} |->
        IF id = b[o + 1] THEN read32(b, o + 1) ELSE m[id]]

\* the entries of a std::map from begin() to end(): by ascending key
mapEntries(m) ==
    [i \in 1..Cardinality(DOMAIN m) |->
        LET id == CHOOSE x \in DOMAIN m :
                      Cardinality({y \in DOMAIN m : y < x}) = i - 1
        IN <<id, m[id]>>]

\* mutant: the id is written behind the period
periodsWrite_IdLast(buffer, o, entry) ==
    put(write32(buffer, o, entry[2]), o + 4, <<entry[1]>>)

\* out[0] = begin->first; write32(out + 1, begin->second); out being at offset o
periodsWrite(buffer, o, entry) ==
    write32(put(buffer, o, <<entry[1]>>), o + 1, entry[2])

\* DetailedSatellites::unmarshal: if ((end - begin) % SatelliteInfo::SIZE != 0)
satellitesLengthError(n) == n % SatelliteInfo_SIZE # 0

\* mutant: the signal to noise ratio is taken from the azimuth's high byte
SatelliteInfoUnmarshal_SnrFromAzimuth(b, o) ==
    [system |-> b[o + 1], prn |-> b[o + 2], frequencies |-> b[o + 3],
     elevation |-> b[o + 4], azimuth |-> read16(b, o + 4), snr |-> b[o + 6]]

\* SatelliteInfo::unmarshal(begin, begin + SIZE), begin being at offset o
SatelliteInfoUnmarshal(b, o) ==
    [system |-> b[o + 1], prn |-> b[o + 2], frequencies |-> b[o + 3],
     elevation |-> b[o + 4], azimuth |-> read16(b, o + 4), snr |-> b[o + 7]]

(***************************************************************************)
(* Packet objects the callers build.                                       *)
(***************************************************************************)
\* the 32-bit value whose four bytes, low byte first, are b, b+1, b+2, b+3
\* (modulo 256); WordAt(1) is the 0x04030201 of the tests
WordAt(b) ==
    <<(b % 256) + 256 * ((b + 1) % 256), ((b + 2) % 256) + 256 * ((b + 3) % 256)>>

\* n consecutive 32-bit values starting at byte b
WordsAt(b, n) == [i \in 1..n |-> WordAt(b + 4 * (i - 1))]

PermanentSamples == {0, 1, 255}
ObjSeeds == {1, 250}

\* an object of type t: its permanent flag is p, its other fields follow from
\* the seed, its reserved fields are zero unless `dirty`
SampleObj(t, p, seed, dirty) ==
    CASE t = "BootMode" -> [boot_mode |-> (seed + p) % 256]
      [] t = "PacketTimerPeriod" ->
             [permanent |-> p, utc_synchronization |-> (seed + 1) % 256,
              period |-> WordAt(seed + 2)[1]]
      [] t = "BaudRates" ->
             [permanent |-> p, primary_port |-> WordAt(seed),
              gpio |-> WordAt(seed + 4), auxiliary_rs232 |-> WordAt(seed + 8),
              reserved |-> IF dirty THEN WordAt(seed + 12) ELSE Zero32]
      [] t = "Alignment" ->
             [permanent |-> p, dcm |-> WordsAt(seed, 9),
              gnss_antenna_offset_xyz |-> WordsAt(seed + 36, 3),
              odometer_offset_xyz |-> WordsAt(seed + 48, 3),
              external_data_offset_xyz |-> WordsAt(seed + 60, 3)]
      [] t = "FilterOptions" ->
             [permanent |-> p, vehicle_type |-> (seed + 1) % 256,
              enabled_internal_gnss |-> (seed + 2) % 256,
              reserved_0 |-> IF dirty THEN (seed + 3) % 256 ELSE 0,
              enabled_atmospheric_altitude |-> (seed + 4) % 256,
              enabled_velocity_heading |-> (seed + 5) % 256,
              enabled_reversing_detection |-> (seed + 6) % 256,
              enabled_motion_analysis |-> (seed + 7) % 256,
              reserved_1 |-> [i \in 1..9 |->
                                 IF dirty THEN (seed + 7 + i) % 256 ELSE 0]]
      [] t = "MagneticCalibrationValues" ->
             [permanent |-> p, hard_iron_bias_xyz |-> WordsAt(seed, 3),
              soft_iron_transformation |-> WordsAt(seed + 12, 9)]

SampleObjs(t) ==
    {SampleObj(t, p, seed, dirty) :
        p \in PermanentSamples, seed \in ObjSeeds, dirty \in BOOLEAN}

\* bytes an output buffer may hold before a marshal writes into it
FillBytes == {0, 170}

\* a buffer of n bytes, not written yet
Blank(n, fill) == [i \in 1..n |-> fill]

(***************************************************************************)
(* The packets that have no fixed-size unmarshal: requests, commands and   *)
(* the variable-length packets.                                            *)
(***************************************************************************)
\* static constexpr int ID of these structs
OtherID ==
    [Request |-> 1, RestoreFactorySettings |-> 4, HotStartReset |-> 5,
     ColdStartReset |-> 5, DetailedSatellites |-> 31, PacketPeriods |-> 181,
     MagneticCalibrationConfiguration |-> 190]

OtherTypes ==
    {"Request", "RestoreFactorySettings", "HotStartReset", "ColdStartReset",
     "DetailedSatellites", "PacketPeriods", "MagneticCalibrationConfiguration"}

\* every struct that has an ID
PacketTypes == FixedTypes \cup OtherTypes

\* T::ID
PacketID(t) == IF t \in OtherTypes THEN OtherID[t] ELSE ID[t]

CommandTypes == {"RestoreFactorySettings", "HotStartReset", "ColdStartReset"}

COMMAND_SIZE == 4   \* SIZE of RestoreFactorySettings, HotStartReset, ColdStartReset

\* RestoreFactorySettings(): verification_sequence = { 0x1C, 0x9E, 0x42, 0x85 }
RestoreFactorySettingsNew == [verification_sequence |-> <<28, 158, 66, 133>>]

\* HotStartReset(): verification_sequence = { 0x7E, 0x7A, 0x05, 0x21 }
HotStartResetNew == [verification_sequence |-> <<126, 122, 5, 33>>]

\* mutant: the cold start carries the sequence of the hot start
ColdStartResetNew_HotSequence == [verification_sequence |-> <<126, 122, 5, 33>>]

\* ColdStartReset(): verification_sequence = { 0xB7, 0x38, 0x5D, 0x9A }
ColdStartResetNew == [verification_sequence |-> <<183, 56, 93, 154>>]

\* T() for the three commands
CommandNew(t) ==
    CASE t = "RestoreFactorySettings" -> RestoreFactorySettingsNew
      [] t = "HotStartReset" -> HotStartResetNew
      [] t = "ColdStartReset" -> ColdStartResetNew

\* marshal of the three commands:
\* std::copy(verification_sequence, verification_sequence + 4, out); return out + 4
CommandMarshal(x, buffer) ==
    [out |-> put(buffer, 0, x.verification_sequence), end |-> COMMAND_SIZE]

\* the payload of a default-constructed command, as marshal writes it
CommandBytes(t, fill) ==
    LET m == CommandMarshal(CommandNew(t), Blank(COMMAND_SIZE, fill))
    IN SubSeq(m.out, 1, m.end)

(***************************************************************************)
(* Values of the variables a component leaves alone.                       *)
(***************************************************************************)
NoAck   == Acknowledge(0, 0, 0, 0)
NoCall  == [kind |-> "none"]
NoValue == [kind |-> "none"]

Init ==
    /\ header = HeaderDefault
    /\ payload = <<>>
    /\ arg_id = 0
    /\ hop = "default"
    /\ edits = 0
    /\ ack = NoAck
    /\ ptype = "none"
    /\ buf = <<>>
    /\ outcome = "none"
    /\ touched = {}
    /\ pc = "idle"
    /\ call = NoCall
    /\ rx = <<>>
    /\ elapsed = 0
    /\ log = <<>>
    /\ ret = NoValue
    /\ obj = NoValue
    /\ out = <<>>
    /\ result = NoValue
    /\ pos = 0
    /\ tx = <<>>
    /\ stream = <<>>
    /\ taken = 0
    /\ previous = "none"

(***************************************************************************)
(* Header: construction from data, direct field assignment, validation.    *)
(***************************************************************************)
MaxPayloadLen == 256    \* longest payload handed to Header / isPacketValid
ShortLen      == 2      \* every length 0..ShortLen is taken
MaxEdits      == 1      \* direct field assignments after a constructor

TestPayloadLen == 7     \* PAYLOAD_SIZE of the tests, payload "0123456"

PayloadLens ==
    {n \in 0..MaxPayloadLen : n <= ShortLen \/ n = TestPayloadLen \/ n >= 255}
PayloadBases == {0, 48}
PacketIdArgs == {1, 5}

\* the byte range base, base+1, ... of the given length (modulo 256);
\* Payload(7, 48) is the "0123456" of the tests
Payload(len, base) == [i \in 1..len |-> (base + i - 1) % 256]

Payloads == {Payload(len, base) : len \in PayloadLens, base \in PayloadBases}

\* Header header;  a fresh header and no byte range yet
HeaderNew ==
    /\ hop # "default"
    /\ header' = HeaderDefault
    /\ payload' = <<>>
    /\ arg_id' = 0
    /\ hop' = "default"
    /\ edits' = 0
    /\ UNCHANGED <<ackVars, codecVars, waitVars, valueVars, sendVars, sessionVars>>

\* Header header(packet_id, begin, end);
HeaderFromData(packet_id, p) ==
    /\ hop = "default"
    /\ header' = Header(packet_id, p)
    /\ payload' = p
    /\ arg_id' = packet_id
    /\ hop' = "Header"
    /\ edits' = 0
    /\ UNCHANGED <<ackVars, codecVars, waitVars, valueVars, sendVars, sessionVars>>

\* header.<field> = v;  one off the current value, either way
AssignField(f, v) ==
    /\ hop \in {"default", "Header", "assign"}
    /\ edits < MaxEdits
    /\ header' = [header EXCEPT ![f] = v]
    /\ hop' = "assign"
    /\ edits' = edits + 1
    /\ UNCHANGED <<payload, arg_id, ackVars, codecVars, waitVars,
                   valueVars, sendVars, sessionVars>>

\* header.isPacketValid(begin, end) on another byte range
PresentPayload(p) ==
    /\ hop \in {"default", "Header", "assign"}
    /\ p # payload
    /\ payload' = p
    /\ hop' = "isPacketValid"
    /\ UNCHANGED <<header, arg_id, edits, ackVars, codecVars, waitVars,
                   valueVars, sendVars, sessionVars>>

NextHeader ==
    \/ HeaderNew
    \/ \E packet_id \in PacketIdArgs, p \in Payloads : HeaderFromData(packet_id, p)
    \/ \E f \in HeaderFields :
          \E v \in {(header[f] + 1) % 256, (header[f] + 255) % 256} : AssignField(f, v)
    \/ \E p \in Payloads : PresentPayload(p)

SpecHeader == Init /\ [][NextHeader]_vars

(***************************************************************************)
(* Header bytes: the five fields assigned directly, as a received header.  *)
(***************************************************************************)
FieldSamples == {0, 1, 128, 255}

\* Header header; header.header_checksum = cs; header.packet_id = id; ...
AssignHeader ==
    /\ hop = "default"
    /\ \E cs \in Byte, id \in FieldSamples, len \in FieldSamples,
          lsb \in FieldSamples, msb \in FieldSamples :
          header' = [header_checksum |-> cs, packet_id |-> id,
                     payload_length |-> len,
                     payload_checksum_lsb |-> lsb, payload_checksum_msb |-> msb]
    /\ hop' = "assign"
    /\ UNCHANGED <<payload, arg_id, edits, ackVars, codecVars, waitVars,
                   valueVars, sendVars, sessionVars>>

NextHeaderBytes ==
    \/ HeaderNew
    \/ AssignHeader

SpecHeaderBytes == Init /\ [][NextHeaderBytes]_vars

(***************************************************************************)
(* Acknowledge: an acknowledge set against the header of a sent packet.    *)
(***************************************************************************)
OtherChecksumByte == 16     \* the 0x10 the tests use as a non-matching byte

\* Acknowledge ack = { id, lsb, msb, result };  each identifying byte is the
\* header's or another one, the result code any byte
AckNew ==
    /\ hop = "Header"
    /\ \E id \in {header.packet_id, (header.packet_id + 1) % 256},
          lsb \in {header.payload_checksum_lsb, OtherChecksumByte},
          msb \in {header.payload_checksum_msb, OtherChecksumByte},
          r \in Byte :
          ack' = Acknowledge(id, lsb, msb, r)
    /\ hop' = "Acknowledge"
    /\ UNCHANGED <<header, payload, arg_id, edits, codecVars, waitVars,
                   valueVars, sendVars, sessionVars>>

NextAck ==
    \/ \E packet_id \in PacketIdArgs, p \in Payloads : HeaderFromData(packet_id, p)
    \/ AckNew

SpecAck == Init /\ [][NextAck]_vars

(***************************************************************************)
(* Decoders: one unmarshal call on a byte range of some length.            *)
(***************************************************************************)
MaxExtra == 2       \* ranges of 0 .. SIZE + MaxExtra bytes are tried

\* T::unmarshal(begin, begin + n)
Unmarshal ==
    /\ outcome = "none"
    /\ \E t \in FixedTypes, base \in PayloadBases :
          \E n \in 0..(SIZE[t] + MaxExtra) :
          /\ ptype' = t
          /\ buf' = Payload(n, base)
          /\ outcome' = unmarshal(t, Payload(n, base)).status
          /\ touched' = unmarshal(t, Payload(n, base)).reads
    /\ UNCHANGED <<headerVars, ackVars, waitVars, valueVars, sendVars, sessionVars>>

\* the result is dropped
UnmarshalDone ==
    /\ outcome # "none"
    /\ ptype' = "none"
    /\ buf' = <<>>
    /\ outcome' = "none"
    /\ touched' = {}
    /\ UNCHANGED <<headerVars, ackVars, waitVars, valueVars, sendVars, sessionVars>>

NextCodec ==
    \/ Unmarshal
    \/ UnmarshalDone

SpecCodec == Init /\ [][NextCodec]_vars

(***************************************************************************)
(* Exchange protocol: waitForPacket<T>, waitForAck and validateAck on a    *)
(* transport that delivers validated packets one at a time.  The transport *)
(* and the three functions are not part of the sources at hand; they       *)
(* follow sections 4.5, 5 and 6 of the specification and the               *)
(* protocol_FunctionsTest cases.                                           *)
(***************************************************************************)
MaxQueue    == 2    \* packets the transport holds undelivered
MaxLog      == 2    \* most recent packets of a call that are remembered
MaxDeadline == 2    \* largest finite deadline of a call, in clock ticks
MaxTime     == 3    \* ticks counted in a call that has no deadline

NoDeadline == 0     \* base::Time(): the call has no deadline

Deadlines == {NoDeadline} \cup 1..MaxDeadline

\* a packet as the transport delivers it: a header and the payload it validates
makePacket(packet_id, data) == [header |-> Header(packet_id, data), data |-> data]

\* the header the tests wait an acknowledge for
SentHeader ==
    [HeaderDefault EXCEPT !.packet_id = 1, !.payload_checksum_lsb = 2,
                          !.payload_checksum_msb = 3]

\* result codes the device answers with: success, a failure and a code outside
\* of ACK_RESULTS
AckResults == {ACK_SUCCESS, ACK_FAILED_UNKNOWN_PACKET, 255}

StreamPackets ==
    {makePacket(ID["Acknowledge"], <<1, 2, 3, r>>) : r \in AckResults} \cup
    {makePacket(ID["BootMode"], <<3>>),
     makePacket(ID["Acknowledge"], <<1, 2, 4, ACK_FAILED_UNKNOWN_PACKET>>),
     makePacket(ID["Acknowledge"], <<2, 2, 3, ACK_SUCCESS>>),
     makePacket(ID["Acknowledge"], <<1, 2, 3, ACK_SUCCESS, 0>>)}

WaitTypes == {"BootMode", "Acknowledge"}

Terminal == {"matched", "timeout", "ack_failure", "length_error", "transport_error"}

\* mutant: base::Time() is taken for a deadline of zero
expired_ZeroDeadline == elapsed > call.deadline

\* the deadline of the call is finite and the time spent exceeds it
expired == call.deadline # NoDeadline /\ elapsed > call.deadline

\* the log keeps the MaxLog most recent packets
logAppend(l, pkt) ==
    IF Len(l) < MaxLog THEN Append(l, pkt) ELSE Append(Tail(l), pkt)

\* mutant: every packet is taken for the awaited one
idMatches_Any(pkt, t) == TRUE

\* header.packet_id == Packet::ID
idMatches(pkt, t) == pkt.header.packet_id = ID[t]

\* mutant: the allowed time starts again after a discarded packet
elapsedAfterDiscard_Restart(e) == 0

\* the time spent in the call as it stands after a packet was discarded
elapsedAfterDiscard(e) == e

\* pushDataToDriver(makePacket<T>(...)): the device sends a packet
pushDataToDriver(pkt) ==
    /\ Len(rx) < MaxQueue
    /\ rx' = Append(rx, pkt)
    /\ UNCHANGED <<headerVars, ackVars, codecVars, pc, call, elapsed, log, ret,
                   valueVars, sendVars>>

\* the same, the packets sent so far not being recorded
Push(pkt) ==
    /\ pushDataToDriver(pkt)
    /\ UNCHANGED sessionVars

\* the state at the entry of a call: the clock of the call starts
Enter(c) ==
    /\ pc' = "awaiting"
    /\ call' = c
    /\ elapsed' = 0
    /\ log' = <<>>
    /\ ret' = NoValue
    /\ UNCHANGED <<headerVars, ackVars, codecVars, rx, valueVars, sendVars, sessionVars>>

\* waitForPacket<T>(driver, timeout)
CallWaitForPacket(t, d) ==
    /\ pc = "idle"
    /\ Enter([kind |-> "waitForPacket", type |-> t, header |-> HeaderDefault,
              deadline |-> d])

\* waitForAck(driver, header, timeout)
CallWaitForAck(h, d) ==
    /\ pc = "idle"
    /\ Enter([kind |-> "waitForAck", type |-> "Acknowledge", header |-> h,
              deadline |-> d])

\* validateAck(driver, header, timeout)
CallValidateAck(h, d) ==
    /\ pc = "idle"
    /\ Enter([kind |-> "validateAck", type |-> "Acknowledge", header |-> h,
              deadline |-> d])

\* time passes while the call waits
Tick ==
    /\ pc = "awaiting"
    /\ ~expired
    /\ call.deadline = NoDeadline => elapsed < MaxTime
    /\ elapsed' = elapsed + 1
    /\ UNCHANGED <<headerVars, ackVars, codecVars, pc, call, rx, log, ret,
                   valueVars, sendVars, sessionVars>>

\* DEADLINE_EXCEEDED: the cumulative wait exceeds the deadline
Expire ==
    /\ pc = "awaiting"
    /\ expired
    /\ pc' = "timeout"
    /\ ret' = [kind |-> "TimeoutError"]
    /\ UNCHANGED <<headerVars, ackVars, codecVars, call, rx, elapsed, log,
                   valueVars, sendVars, sessionVars>>

\* mutant: a read that finds nothing gives a default-constructed packet back
ReadTimeout_DefaultValue ==
    /\ pc = "awaiting"
    /\ call.deadline = NoDeadline
    /\ rx = <<>>
    /\ pc' = "matched"
    /\ ret' = [kind |-> "packet", value |-> [boot_mode |-> 0]]
    /\ UNCHANGED <<headerVars, ackVars, codecVars, call, rx, elapsed, log,
                   valueVars, sendVars, sessionVars>>

\* waitForPacket<PacketMock>(driver, base::Time()) with no packet received
\* raises iodrivers_base::TimeoutError: a read with base::Time() does not wait
\* for data the transport does not hold
ReadTimeout ==
    /\ pc = "awaiting"
    /\ call.deadline = NoDeadline
    /\ rx = <<>>
    /\ pc' = "timeout"
    /\ ret' = [kind |-> "TimeoutError"]
    /\ UNCHANGED <<headerVars, ackVars, codecVars, call, rx, elapsed, log,
                   valueVars, sendVars, sessionVars>>

\* TRANSPORT_ERROR: the transport reports a read fault
TransportError ==
    /\ pc = "awaiting"
    /\ pc' = "transport_error"
    /\ ret' = [kind |-> "TransportError"]
    /\ UNCHANGED <<headerVars, ackVars, codecVars, call, rx, elapsed, log,
                   valueVars, sendVars, sessionVars>>

\* DISCARD: the packet is dropped and the wait goes on
Discard ==
    /\ pc' = "awaiting"
    /\ elapsed' = elapsedAfterDiscard(elapsed)
    /\ UNCHANGED ret

\* the call ends with the given state and value
Finish(state, value) ==
    /\ pc' = state
    /\ ret' = value
    /\ UNCHANGED elapsed

\* one turn of the loop of waitForPacket<T>: the packet is returned decoded
\* when its id is T's, dropped otherwise
StepWaitForPacket(pkt) ==
    IF idMatches(pkt, call.type)
    THEN IF unmarshal(call.type, pkt.data).status = "ok"
         THEN Finish("matched", [kind |-> "packet",
                                 value |-> decode(call.type, pkt.data)])
         ELSE Finish("length_error", [kind |-> "length_error"])
    ELSE Discard

\* one turn of the loop of waitForAck / validateAck: an acknowledge that
\* matches the header ends the wait, anything else is dropped
StepWaitForAck(pkt) ==
    IF idMatches(pkt, "Acknowledge")
    THEN IF unmarshal("Acknowledge", pkt.data).status = "ok"
         THEN LET a == AcknowledgeUnmarshal(pkt.data)
              IN IF isMatching(a, call.header)
                 THEN IF call.kind = "waitForAck"
                      THEN Finish("matched", [kind |-> "result", value |-> a.result])
                      ELSE IF isSuccess(a)
                           THEN Finish("matched", [kind |-> "void"])
                           ELSE Finish("ack_failure",
                                       [kind |-> "AcknowledgeFailure", ack |-> a])
                 ELSE Discard
         ELSE Finish("length_error", [kind |-> "length_error"])
    ELSE Discard

\* mutant: the packet read stays in the transport
readPacket_Peek ==
    /\ pc = "awaiting"
    /\ ~expired
    /\ rx # <<>>
    /\ rx' = rx
    /\ log' = logAppend(log, Head(rx))
    /\ IF call.kind = "waitForPacket"
       THEN StepWaitForPacket(Head(rx))
       ELSE StepWaitForAck(Head(rx))
    /\ UNCHANGED <<headerVars, ackVars, codecVars, call, valueVars, sendVars>>

\* the transport delivers its next packet to the waiting call
readPacket ==
    /\ pc = "awaiting"
    /\ ~expired
    /\ rx # <<>>
    /\ rx' = Tail(rx)
    /\ log' = logAppend(log, Head(rx))
    /\ IF call.kind = "waitForPacket"
       THEN StepWaitForPacket(Head(rx))
       ELSE StepWaitForAck(Head(rx))
    /\ UNCHANGED <<headerVars, ackVars, codecVars, call, valueVars, sendVars>>

Obtain ==
    /\ readPacket
    /\ UNCHANGED sessionVars

\* mutant: the clock of the call that ended keeps its value
endCall_KeepsClock ==
    /\ pc \in Terminal
    /\ pc' = "idle"
    /\ call' = NoCall
    /\ log' = <<>>
    /\ ret' = NoValue
    /\ UNCHANGED <<headerVars, ackVars, codecVars, rx, elapsed, valueVars,
                   sendVars>>

\* the caller takes the result or catches the failure
endCall ==
    /\ pc \in Terminal
    /\ pc' = "idle"
    /\ call' = NoCall
    /\ elapsed' = 0
    /\ log' = <<>>
    /\ ret' = NoValue
    /\ UNCHANGED <<headerVars, ackVars, codecVars, rx, valueVars, sendVars>>

Return ==
    /\ endCall
    /\ UNCHANGED sessionVars

NextWait ==
    \/ \E pkt \in StreamPackets : Push(pkt)
    \/ \E t \in WaitTypes, d \in Deadlines : CallWaitForPacket(t, d)
    \/ \E d \in Deadlines : CallWaitForAck(SentHeader, d)
    \/ \E d \in Deadlines : CallValidateAck(SentHeader, d)
    \/ Tick
    \/ Expire
    \/ ReadTimeout
    \/ TransportError
    \/ Obtain
    \/ Return

SpecWait == Init /\ [][NextWait]_vars

\* time passes, and a waiting call runs: it takes the packet the transport
\* holds and notices that its deadline is exceeded
FairSpecWait ==
    SpecWait /\ WF_vars(Tick) /\ WF_vars(Expire) /\ WF_vars(Obtain)

\* the same, and a read with base::Time() on an empty transport gives up
FairSpecRead == FairSpecWait /\ WF_vars(ReadTimeout)

(***************************************************************************)
(* A session: several wait calls, one after the other, on one transport.   *)
(* The packets the device has sent are kept in `stream`, the number of     *)
(* them the calls have read in `taken`, and the caller remembers how its   *)
(* previous call ended.                                                    *)
(***************************************************************************)
MaxStream == 3      \* packets the device sends in a session

SessionDeadlines == {NoDeadline, 1}

SessionPackets ==
    {makePacket(ID["BootMode"], <<3>>),
     makePacket(ID["Acknowledge"], <<1, 2, 3, ACK_SUCCESS>>),
     makePacket(ID["Acknowledge"], <<1, 2, 3, ACK_FAILED_UNKNOWN_PACKET>>),
     makePacket(ID["Acknowledge"], <<1, 2, 3, ACK_SUCCESS, 0>>)}

Failures == {"timeout", "ack_failure", "length_error"}

\* pushDataToDriver(makePacket<T>(...))
SessionPush(pkt) ==
    /\ Len(stream) < MaxStream
    /\ pushDataToDriver(pkt)
    /\ stream' = Append(stream, pkt)
    /\ UNCHANGED <<taken, previous>>

\* the transport delivers its next packet to the waiting call
SessionObtain ==
    /\ readPacket
    /\ taken' = taken + 1
    /\ UNCHANGED <<stream, previous>>

\* the caller takes the result or catches the failure
SessionReturn ==
    /\ endCall
    /\ previous' = pc
    /\ UNCHANGED <<stream, taken>>

NextSession ==
    \/ \E pkt \in SessionPackets : SessionPush(pkt)
    \/ \E t \in WaitTypes, d \in SessionDeadlines : CallWaitForPacket(t, d)
    \/ \E d \in SessionDeadlines : CallWaitForAck(SentHeader, d)
    \/ \E d \in SessionDeadlines : CallValidateAck(SentHeader, d)
    \/ Tick
    \/ Expire
    \/ ReadTimeout
    \/ TransportError
    \/ SessionObtain
    \/ SessionReturn

SpecSession == Init /\ [][NextSession]_vars

(***************************************************************************)
(* writePacket(driver, packet): the packet is marshalled behind the place  *)
(* of its header, the header is built from the marshalled bytes and the    *)
(* whole is handed to the transport in one write.  The function itself is  *)
(* not part of the sources at hand; it follows section 4.5 of the          *)
(* specification and the writePacket test.                                 *)
(***************************************************************************)
MAX_PAYLOAD_SIZE == 256     \* MAX_PACKET_SIZE - sizeof(Header)

\* struct PacketMock of the tests
PacketMockID   == 5
PacketMockSIZE == 4

\* PacketMock(): std::iota(buffer, buffer + SIZE, 0)
PacketMockNew == [buffer |-> [i \in 1..PacketMockSIZE |-> i - 1]]

\* PacketMock::marshal: std::copy_n(buffer, SIZE, it)
PacketMockMarshal(x, buffer) ==
    [out |-> put(buffer, 0, x.buffer), end |-> PacketMockSIZE]

SendTypes == MarshalTypes \cup {"PacketMock"}

\* Packet::ID
sendID(t) == IF t = "PacketMock" THEN PacketMockID ELSE ID[t]

sendObjs(t) == IF t = "PacketMock" THEN {PacketMockNew} ELSE SampleObjs(t)

sendMarshal(t, x, buffer) ==
    IF t = "PacketMock" THEN PacketMockMarshal(x, buffer) ELSE marshal(t, x, buffer)

\* mutant: the packet id is laid out before the header checksum
HeaderBytes_IdFirst(h) ==
    <<h.packet_id, h.header_checksum, h.payload_length,
      h.payload_checksum_lsb, h.payload_checksum_msb>>

\* the five bytes of a Header object, in the order of its members
HeaderBytes(h) ==
    <<h.header_checksum, h.packet_id, h.payload_length,
      h.payload_checksum_lsb, h.payload_checksum_msb>>

\* the bytes marshal wrote: those before the iterator it returned
marshalled(t, x, fill) ==
    LET m == sendMarshal(t, x, Blank(MAX_PAYLOAD_SIZE, fill))
    IN SubSeq(m.out, 1, m.end)

\* writePacket(driver, packet) up to the write: marshal, then the header
CallWritePacket(t, x, fill) ==
    /\ pc = "idle"
    /\ pc' = "writing"
    /\ call' = [kind |-> "writePacket", type |-> t]
    /\ obj' = x
    /\ header' = Header(sendID(t), marshalled(t, x, fill))
    /\ out' = HeaderBytes(Header(sendID(t), marshalled(t, x, fill)))
                  \o marshalled(t, x, fill)
    /\ ret' = NoValue
    /\ UNCHANGED <<payload, arg_id, hop, edits, ackVars, codecVars,
                   rx, elapsed, log, result, pos, tx,
                   sessionVars>>

\* driver.writePacket(buffer, size) succeeds; the header is returned
WriteDone ==
    /\ pc = "writing"
    /\ tx' = Append(tx, [bytes |-> out, ok |-> TRUE])
    /\ pc' = "returned"
    /\ ret' = [kind |-> "header", value |-> header]
    /\ UNCHANGED <<headerVars, ackVars, codecVars, call, rx, elapsed, log,
                   valueVars,
                   sessionVars>>

\* the write fails: the failure leaves writePacket as it is
WriteFail ==
    /\ pc = "writing"
    /\ tx' = Append(tx, [bytes |-> out, ok |-> FALSE])
    /\ pc' = "transport_error"
    /\ ret' = [kind |-> "TransportError"]
    /\ UNCHANGED <<headerVars, ackVars, codecVars, call, rx, elapsed, log,
                   valueVars,
                   sessionVars>>

\* the caller goes on; readDataFromDriver() takes what was written
SendReturn ==
    /\ pc \in {"returned", "transport_error"}
    /\ pc' = "idle"
    /\ call' = NoCall
    /\ ret' = NoValue
    /\ header' = HeaderDefault
    /\ obj' = NoValue
    /\ out' = <<>>
    /\ tx' = <<>>
    /\ UNCHANGED <<payload, arg_id, hop, edits, ackVars, codecVars,
                   rx, elapsed, log, result, pos,
                   sessionVars>>

NextSend ==
    \/ \E t \in SendTypes, fill \in FillBytes :
          \E x \in sendObjs(t) : CallWritePacket(t, x, fill)
    \/ WriteDone
    \/ WriteFail
    \/ SendReturn

SpecSend == Init /\ [][NextSend]_vars

(***************************************************************************)
(* Variable-length decoders: the length check, then one turn of the loop   *)
(* per record.                                                             *)
(***************************************************************************)
MaxRecords == 2     \* ranges of up to MaxRecords records and one byte more

VarBases == {1, 250}

\* the payloads of the PacketPeriods tests and one that repeats an id
PeriodsTestVector == <<1, 1, 1, 1, 2, 3, 4, 2, 5, 6, 7, 8>>
PeriodsRepeatedId == <<0, 1, 7, 1, 0, 0, 128, 7, 2, 0, 0, 0>>

PeriodsBuffers ==
    {Payload(n, base) :
        n \in 0..(MIN_SIZE + PERIOD_SIZE * MaxRecords + 1), base \in VarBases}
    \cup {PeriodsTestVector, PeriodsRepeatedId}

\* the maps handed to PacketPeriods::marshal: up to MaxRecords entries
PeriodIds == {1, 2, 200}
PeriodSamples == {WordAt(1), WordAt(5), WordAt(250)}
PeriodMaps ==
    UNION {[ids -> PeriodSamples] :
              ids \in {i \in SUBSET PeriodIds : Cardinality(i) <= MaxRecords}}

\* the payload of the DetailedSatellites test
SatellitesTestVector == <<1, 2, 3, 4, 2, 1, 5, 6, 7, 8, 9, 4, 3, 10>>

SatellitesBuffers ==
    {Payload(n, base) :
        n \in 0..(SatelliteInfo_SIZE * MaxRecords + 1), base \in VarBases}
    \cup {SatellitesTestVector}

\* what the caller's vector holds before the call
PriorInfos == {<<>>, <<SatelliteInfoUnmarshal(Payload(7, 100), 0)>>}

\* PacketPeriods::unmarshal(begin, end) up to the loop, b being the range
periodsUnmarshal(b) ==
    /\ ptype' = "PacketPeriods"
    /\ buf' = b
    /\ IF periodsLengthError(Len(b))
       THEN /\ outcome' = "length_error"
            /\ result' = NoValue
            /\ pos' = 0
       ELSE /\ outcome' = "running"
            /\ result' = EmptyPeriods
            /\ pos' = MIN_SIZE
    /\ touched' = {}
    /\ UNCHANGED <<headerVars, ackVars, waitVars, obj, out, sendVars,
                   sessionVars>>

\* PacketPeriods::unmarshal on received bytes
PacketPeriodsUnmarshal ==
    /\ outcome = "none"
    /\ \E b \in PeriodsBuffers : periodsUnmarshal(b)

\* for (; begin != end; begin += PERIOD_SIZE)
\*     result[*begin] = read32<uint32_t>(begin + 1);
PacketPeriodsStep ==
    /\ outcome = "running"
    /\ ptype = "PacketPeriods"
    /\ pos # Len(buf)
    /\ result' = periodsInsert(result, buf, pos)
    /\ touched' = touched \cup pos..(pos + PERIOD_SIZE - 1)
    /\ pos' = pos + PERIOD_SIZE
    /\ UNCHANGED <<headerVars, ackVars, waitVars, ptype, buf, outcome,
                   obj, out, sendVars, sessionVars>>

\* PacketPeriods data; data.permanent = ...; data.clear_existing = ...;
\* data.marshal(marshalled, periods.begin(), periods.end()) up to the loop
PacketPeriodsMarshal ==
    /\ outcome = "none"
    /\ \E m \in PeriodMaps, p \in PermanentSamples, c \in {0, 1},
          fill \in FillBytes :
          /\ obj' = [permanent |-> p, clear_existing |-> c, periods |-> m]
          /\ out' = put(Blank(MIN_SIZE + PERIOD_SIZE * Cardinality(DOMAIN m),
                              fill), 0, <<p, c>>)
    /\ pos' = MIN_SIZE
    /\ outcome' = "marshalling"
    /\ UNCHANGED <<headerVars, ackVars, waitVars, ptype, buf, touched, result,
                   sendVars, sessionVars>>

\* for (out += 2; begin != end; ++begin, out += PERIOD_SIZE)
\* { out[0] = begin->first; write32(out + 1, begin->second); }
\* begin is (out - 2) / PERIOD_SIZE entries away from periods.begin()
PacketPeriodsMarshalStep ==
    /\ outcome = "marshalling"
    /\ (pos - MIN_SIZE) \div PERIOD_SIZE # Len(mapEntries(obj.periods))
    /\ out' = periodsWrite(out, pos,
                  mapEntries(obj.periods)[(pos - MIN_SIZE) \div PERIOD_SIZE + 1])
    /\ pos' = pos + PERIOD_SIZE
    /\ UNCHANGED <<headerVars, ackVars, waitVars, codecVars, obj, result,
                   sendVars, sessionVars>>

\* begin == end: return out
PacketPeriodsMarshalReturn ==
    /\ outcome = "marshalling"
    /\ (pos - MIN_SIZE) \div PERIOD_SIZE = Len(mapEntries(obj.periods))
    /\ outcome' = "marshalled"
    /\ UNCHANGED <<headerVars, ackVars, waitVars, ptype, buf, touched,
                   valueVars, sendVars, sessionVars>>

\* PacketPeriods::unmarshal(marshalled, out) on what marshal wrote
PacketPeriodsRoundTrip ==
    /\ outcome = "marshalled"
    /\ periodsUnmarshal(SubSeq(out, 1, pos))

\* std::vector<SatelliteInfo> info;  the vector the caller owns, as it is
\* before the call
SatellitesVector ==
    /\ outcome = "none"
    /\ \E info \in PriorInfos : result' = info
    /\ outcome' = "vector"
    /\ UNCHANGED <<headerVars, ackVars, waitVars, ptype, buf, touched, pos,
                   obj, out, sendVars, sessionVars>>

\* mutant: the vector is cleared before the records are appended
DetailedSatellitesUnmarshal_Clears ==
    /\ outcome = "vector"
    /\ ptype' = "DetailedSatellites"
    /\ \E b \in SatellitesBuffers :
          /\ buf' = b
          /\ outcome' = IF satellitesLengthError(Len(b))
                        THEN "length_error" ELSE "running"
    /\ result' = <<>>
    /\ pos' = 0
    /\ touched' = {}
    /\ UNCHANGED <<headerVars, ackVars, waitVars, obj, out, sendVars, sessionVars>>

\* DetailedSatellites::unmarshal(begin, end, info) up to the loop; info is the
\* caller's vector, taken by reference
DetailedSatellitesUnmarshal ==
    /\ outcome = "vector"
    /\ ptype' = "DetailedSatellites"
    /\ \E b \in SatellitesBuffers :
          /\ buf' = b
          /\ outcome' = IF satellitesLengthError(Len(b))
                        THEN "length_error" ELSE "running"
    /\ result' = result
    /\ pos' = 0
    /\ touched' = {}
    /\ UNCHANGED <<headerVars, ackVars, waitVars, obj, out, sendVars, sessionVars>>

\* for (; begin != end; begin += SatelliteInfo::SIZE)
\*     info.push_back(SatelliteInfo::unmarshal(begin, begin + SatelliteInfo::SIZE));
DetailedSatellitesStep ==
    /\ outcome = "running"
    /\ ptype = "DetailedSatellites"
    /\ pos # Len(buf)
    /\ result' = Append(result, SatelliteInfoUnmarshal(buf, pos))
    /\ touched' = touched \cup ((pos..(pos + 5)) \cup {pos + 6})
    /\ pos' = pos + SatelliteInfo_SIZE
    /\ UNCHANGED <<headerVars, ackVars, waitVars, ptype, buf, outcome,
                   obj, out, sendVars, sessionVars>>

\* begin == end: the loop is left and the function returns
LoopReturn ==
    /\ outcome = "running"
    /\ pos = Len(buf)
    /\ outcome' = "ok"
    /\ UNCHANGED <<headerVars, ackVars, waitVars, ptype, buf, touched,
                   valueVars, sendVars, sessionVars>>

\* the caller drops the result
VarDone ==
    /\ outcome \in {"ok", "length_error", "marshalled"}
    /\ ptype' = "none"
    /\ buf' = <<>>
    /\ outcome' = "none"
    /\ touched' = {}
    /\ obj' = NoValue
    /\ out' = <<>>
    /\ result' = NoValue
    /\ pos' = 0
    /\ UNCHANGED <<headerVars, ackVars, waitVars, sendVars, sessionVars>>

NextVarCodec ==
    \/ PacketPeriodsUnmarshal
    \/ PacketPeriodsStep
    \/ PacketPeriodsMarshal
    \/ PacketPeriodsMarshalStep
    \/ PacketPeriodsMarshalReturn
    \/ PacketPeriodsRoundTrip
    \/ SatellitesVector
    \/ DetailedSatellitesUnmarshal
    \/ DetailedSatellitesStep
    \/ LoopReturn
    \/ VarDone

SpecVarCodec == Init /\ [][NextVarCodec]_vars

\* an unmarshal that was called runs to its end
FairSpecVarCodec ==
    SpecVarCodec /\ WF_vars(PacketPeriodsStep) /\ WF_vars(DetailedSatellitesStep)
                 /\ WF_vars(LoopReturn) /\ WF_vars(PacketPeriodsMarshalStep)
                 /\ WF_vars(PacketPeriodsMarshalReturn)

(***************************************************************************)
(* Configuration packets: a struct is filled in by the caller or           *)
(* unmarshalled from received bytes, marshalled into a buffer, and the     *)
(* marshalled bytes are unmarshalled again.                                *)
(***************************************************************************)
WireBases == {0, 1, 250}

\* T data; data.permanent = ...; data.<field> = ...;
ConfigNew ==
    /\ outcome = "none"
    /\ \E t \in MarshalTypes :
          /\ ptype' = t
          /\ \E x \in SampleObjs(t) : obj' = x
    /\ buf' = <<>>
    /\ outcome' = "object"
    /\ UNCHANGED <<headerVars, ackVars, waitVars, touched, out, result, pos,
                   sendVars, sessionVars>>

\* T out = T::unmarshal(marshalled, marshalled + T::SIZE);
ConfigUnmarshal ==
    /\ outcome = "none"
    /\ \E t \in MarshalTypes, base \in WireBases :
          /\ ptype' = t
          /\ buf' = Payload(SIZE[t], base)
          /\ unmarshal(t, Payload(SIZE[t], base)).status = "ok"
          /\ obj' = decode(t, Payload(SIZE[t], base))
    /\ outcome' = "object"
    /\ UNCHANGED <<headerVars, ackVars, waitVars, touched, out, result, pos,
                   sendVars, sessionVars>>

\* uint8_t marshalled[...]; auto out = data.marshal(marshalled);
ConfigMarshal ==
    /\ outcome = "object"
    /\ \E fill \in FillBytes :
          /\ out' = marshal(ptype, obj, Blank(SIZE[ptype] + MaxExtra, fill)).out
          /\ pos' = marshal(ptype, obj, Blank(SIZE[ptype] + MaxExtra, fill)).end
    /\ outcome' = "marshalled"
    /\ UNCHANGED <<headerVars, ackVars, waitVars, ptype, buf, touched, obj,
                   result, sendVars, sessionVars>>

\* T::unmarshal(marshalled, out) of the bytes marshal wrote
ConfigRoundTrip ==
    /\ outcome = "marshalled"
    /\ outcome' = unmarshal(ptype, SubSeq(out, 1, pos)).status
    /\ result' = IF unmarshal(ptype, SubSeq(out, 1, pos)).status = "ok"
                 THEN decode(ptype, SubSeq(out, 1, pos)) ELSE NoValue
    /\ UNCHANGED <<headerVars, ackVars, waitVars, ptype, buf, touched, obj,
                   out, pos, sendVars, sessionVars>>

\* the structs and the buffer go out of scope
ConfigDone ==
    /\ outcome \in {"marshalled", "ok", "length_error"}
    /\ ptype \in MarshalTypes
    /\ ptype' = "none"
    /\ buf' = <<>>
    /\ outcome' = "none"
    /\ obj' = NoValue
    /\ out' = <<>>
    /\ result' = NoValue
    /\ pos' = 0
    /\ UNCHANGED <<headerVars, ackVars, waitVars, touched, sendVars, sessionVars>>

NextConfig ==
    \/ ConfigNew
    \/ ConfigUnmarshal
    \/ ConfigMarshal
    \/ ConfigRoundTrip
    \/ ConfigDone

SpecConfig == Init /\ [][NextConfig]_vars

(***************************************************************************)
(* The catalog: a packet of one type is given its header, and a receiver   *)
(* that expects a type compares the header's id with that type's ID.       *)
(***************************************************************************)
\* Header header(T::ID, payload, payload + n): the payload of a command is
\* what its marshal wrote, no payload is looked at for the other types
CatalogHeader(t, fill) ==
    /\ ptype' = t
    /\ payload' = IF t \in CommandTypes THEN CommandBytes(t, fill) ELSE <<>>
    /\ arg_id' = PacketID(t)
    /\ header' = Header(PacketID(t),
                        IF t \in CommandTypes THEN CommandBytes(t, fill) ELSE <<>>)
    /\ hop' = "Header"
    /\ edits' = 0
    /\ outcome' = "none"
    /\ result' = NoValue
    /\ buf' = <<>>
    /\ UNCHANGED <<ackVars, touched, waitVars, obj, out, pos, sendVars,
                   sessionVars>>

\* header.packet_id == U::ID, U being the type the receiver expects; for a
\* command the receiver also holds U's verification sequence
CatalogCompare(u, fill) ==
    /\ ptype \in PacketTypes
    /\ hop = "Header"
    /\ result' = [kind |-> "expected", type |-> u]
    /\ outcome' = IF header.packet_id = PacketID(u) THEN "same_id" ELSE "other_id"
    /\ buf' = IF u \in CommandTypes THEN CommandBytes(u, fill) ELSE <<>>
    /\ UNCHANGED <<headerVars, ackVars, ptype, touched, waitVars, obj, out, pos,
                   sendVars, sessionVars>>

NextCatalog ==
    \/ \E t \in PacketTypes, fill \in FillBytes : CatalogHeader(t, fill)
    \/ \E u \in PacketTypes, fill \in FillBytes : CatalogCompare(u, fill)

SpecCatalog == Init /\ [][NextCatalog]_vars

(***************************************************************************)
(* The byte helpers: a value is written into a buffer by write16, write32  *)
(* or write64 and read back by the read helper of the same width.          *)
(***************************************************************************)
Widths == {16, 32, 64}

\* 16-bit words the values are made of
WordSamples == {0, 1, 513, 32768, 65535}

\* the values of N bits: one, two or four 16-bit words, low word first
ValuesOf(N) ==
    CASE N = 16 -> WordSamples
      [] N = 32 -> WordSamples \X WordSamples
      [] N = 64 -> {0, 513, 65535} \X {0, 513} \X {0, 65535} \X {1, 32768}

\* offsets of the value in the buffer
WordOffsets == {0, 1}

\* writeN(out + o, v)
writeN(N, buffer, o, v) ==
    CASE N = 16 -> write16(buffer, o, v)
      [] N = 32 -> write32(buffer, o, v)
      [] N = 64 -> write64(buffer, o, v)

\* readN<T>(begin + o)
readN(N, b, o) ==
    CASE N = 16 -> read16(b, o)
      [] N = 32 -> read32(b, o)
      [] N = 64 -> read64(b, o)

\* uint8_t buffer[...]; writeN(buffer + o, v);
WriteValue ==
    /\ outcome = "none"
    /\ \E N \in Widths, o \in WordOffsets, fill \in FillBytes :
          /\ \E v \in ValuesOf(N) :
                /\ obj' = [width |-> N, value |-> v]
                /\ out' = writeN(N, Blank(N \div 8 + MaxExtra, fill), o, v)
          /\ pos' = o
    /\ outcome' = "written"
    /\ UNCHANGED <<headerVars, ackVars, waitVars, ptype, buf, touched, result,
                   sendVars, sessionVars>>

\* T r = readN<T>(buffer + o);
ReadValue ==
    /\ outcome = "written"
    /\ result' = [value |-> readN(obj.width, out, pos)]
    /\ outcome' = "read"
    /\ UNCHANGED <<headerVars, ackVars, waitVars, ptype, buf, touched, obj, out,
                   pos, sendVars, sessionVars>>

\* the buffer goes out of scope
ValueDone ==
    /\ outcome = "read"
    /\ outcome' = "none"
    /\ obj' = NoValue
    /\ out' = <<>>
    /\ result' = NoValue
    /\ pos' = 0
    /\ UNCHANGED <<headerVars, ackVars, waitVars, ptype, buf, touched,
                   sendVars, sessionVars>>

NextWords ==
    \/ WriteValue
    \/ ReadValue
    \/ ValueDone

SpecWords == Init /\ [][NextWords]_vars

(***************************************************************************)
(* SystemState: a received payload is decoded, and so is the payload that  *)
(* differs from it in one byte.                                            *)
(***************************************************************************)
\* SystemState::unmarshal(marshalled, marshalled + 100)
SystemStateDecode ==
    /\ outcome = "none"
    /\ \E base \in WireBases :
          /\ buf' = Payload(SIZE["SystemState"], base)
          /\ outcome' = unmarshal("SystemState", Payload(SIZE["SystemState"], base)).status
          /\ result' = decode("SystemState", Payload(SIZE["SystemState"], base))
    /\ ptype' = "SystemState"
    /\ touched' = {}
    /\ pos' = 0
    /\ UNCHANGED <<headerVars, ackVars, waitVars, obj, out, sendVars,
                   sessionVars>>

\* marshalled[i] = v; SystemState::unmarshal(marshalled, marshalled + 100)
SystemStateChangeByte ==
    /\ outcome = "ok"
    /\ ptype = "SystemState"
    /\ touched = {}
    /\ \E i \in 0..(SIZE["SystemState"] - 1) :
          \E v \in {(buf[i + 1] + 1) % 256, (buf[i + 1] + 128) % 256} :
          /\ buf' = [buf EXCEPT ![i + 1] = v]
          /\ result' = decode("SystemState", [buf EXCEPT ![i + 1] = v])
          /\ touched' = {i}
          /\ pos' = i
    /\ UNCHANGED <<headerVars, ackVars, waitVars, ptype, outcome, obj, out,
                   sendVars, sessionVars>>

\* the result is dropped
SystemStateDone ==
    /\ ptype = "SystemState"
    /\ ptype' = "none"
    /\ buf' = <<>>
    /\ outcome' = "none"
    /\ touched' = {}
    /\ result' = NoValue
    /\ pos' = 0
    /\ UNCHANGED <<headerVars, ackVars, waitVars, obj, out, sendVars,
                   sessionVars>>

NextSystemState ==
    \/ SystemStateDecode
    \/ SystemStateChangeByte
    \/ SystemStateDone

SpecSystemState == Init /\ [][NextSystemState]_vars

----------------------------------------------------------------------------
\* C1: a header built by Header(packet_id, payload) from a payload of at most
\* 255 bytes has the given packet_id, the payload's length, a valid header
\* checksum and validates that payload.
C1_HeaderFromDataValidates ==
    (hop = "Header" /\ Len(payload) <= 255) =>
        /\ header.packet_id = arg_id
        /\ header.payload_length = Len(payload)
        /\ isValid(header)
        /\ isPacketValid(header, payload)

\* the test's header: id 5 over "0123456", whose CRC is 0x88A7
C1_Witness ==
    /\ hop = "Header"
    /\ arg_id = 5
    /\ payload = <<48, 49, 50, 51, 52, 53, 54>>
    /\ header.payload_checksum_lsb = 167
    /\ header.payload_checksum_msb = 136
    /\ isValid(header)
    /\ isPacketValid(header, payload)

\* C2: isValid() holds exactly when header_checksum is
\* ((packet_id + payload_length + lsb + msb) XOR 0xFF) + 1 modulo 256, the XOR
\* with 0xFF replacing the low byte b of the sum by 255 - b; the all-zero
\* header is valid.
C2_IsValidIffChecksumIdentity ==
    LET s == header.packet_id + header.payload_length
             + header.payload_checksum_lsb + header.payload_checksum_msb
        flipped == (s - (s % 256)) + (255 - (s % 256))
    IN /\ isValid(header) <=> (header.header_checksum = (flipped + 1) % 256)
       /\ (\A f \in HeaderFields : header[f] = 0) => isValid(header)

C2_Witness ==
    /\ hop = "assign"
    /\ \A f \in HeaderFields : header[f] = 0
    /\ isValid(header)

\* C3: isPacketValid is false whenever the range's length differs from
\* payload_length, whatever the checksum bytes; with equal lengths it is true
\* exactly when both checksum bytes are the low and high byte of the range's
\* CRC; header_checksum and packet_id do not influence it.
C3_IsPacketValid ==
    LET checksum == crc(payload)
        matches == /\ header.payload_checksum_lsb = checksum % 256
                   /\ header.payload_checksum_msb = checksum \div 256
    IN /\ (header.payload_length # Len(payload)) => ~isPacketValid(header, payload)
       /\ (header.payload_length = Len(payload)) =>
              (isPacketValid(header, payload) <=> matches)
       /\ \A f \in {"header_checksum", "packet_id"} :
              \A v \in {0, (header[f] + 1) % 256, 255} :
                  isPacketValid([header EXCEPT ![f] = v], payload)
                      = isPacketValid(header, payload)

\* both checksum bytes are those of the range, the header is one byte longer
C3_Witness ==
    /\ hop = "assign"
    /\ header.payload_length = Len(payload) + 1
    /\ header.payload_checksum_lsb = crc(payload) % 256
    /\ header.payload_checksum_msb = crc(payload) \div 256
    /\ ~isPacketValid(header, payload)

\* C4: isMatching holds exactly when the acked packet id and both acked
\* checksum bytes equal the header's; changing any one of the three in a
\* matching acknowledge breaks the match; the result code, the payload length
\* and the header checksum do not influence it.
C4_IsMatching ==
    /\ isMatching(ack, header) <=>
           /\ ack.acked_packet_id = header.packet_id
           /\ ack.acked_payload_checksum_lsb = header.payload_checksum_lsb
           /\ ack.acked_payload_checksum_msb = header.payload_checksum_msb
    /\ isMatching(ack, header) =>
           \A f \in AckIdFields : \A v \in Byte \ {ack[f]} :
               ~isMatching([ack EXCEPT ![f] = v], header)
    /\ \A v \in {0, 7, 255} :
           /\ isMatching([ack EXCEPT !.result = v], header) = isMatching(ack, header)
           /\ isMatching(ack, [header EXCEPT !.payload_length = v])
                  = isMatching(ack, header)
           /\ isMatching(ack, [header EXCEPT !.header_checksum = v])
                  = isMatching(ack, header)

\* a matching acknowledge that reports a failure for a non-empty packet
C4_Witness ==
    /\ hop = "Acknowledge"
    /\ isMatching(ack, header)
    /\ ack.result = ACK_FAILED_UNKNOWN_PACKET
    /\ header.payload_length = 7
    /\ header.packet_id = 1

\* C5: for a result code 0..6 exactly one of the five predicates holds
\* (0 success; 1, 2 packet validation failure; 3, 6 protocol error; 4 system
\* error; 5 not ready); for any other result code none holds.
C5_ResultClassification ==
    LET r == ack.result
        holding == {n \in {"isSuccess", "isPacketValidationFailure",
                           "isProtocolError", "isSystemError", "isNotReady"} :
                       \/ n = "isSuccess" /\ isSuccess(ack)
                       \/ n = "isPacketValidationFailure" /\ isPacketValidationFailure(ack)
                       \/ n = "isProtocolError" /\ isProtocolError(ack)
                       \/ n = "isSystemError" /\ isSystemError(ack)
                       \/ n = "isNotReady" /\ isNotReady(ack)}
    IN /\ r = 0 => holding = {"isSuccess"}
       /\ r \in {1, 2} => holding = {"isPacketValidationFailure"}
       /\ r \in {3, 6} => holding = {"isProtocolError"}
       /\ r = 4 => holding = {"isSystemError"}
       /\ r = 5 => holding = {"isNotReady"}
       /\ r \notin 0..6 => holding = {}

C5_Witness ==
    /\ hop = "Acknowledge"
    /\ ack.result = 6
    /\ isProtocolError(ack)
    /\ ~isPacketValidationFailure(ack)

\* C6: unmarshal of a fixed-size packet type fails with a length error on
\* every range whose length is not the type's SIZE, one byte less and one
\* byte more included, and then reads no byte of the range; on a range of
\* exactly SIZE bytes it does not fail and stays inside the range.
C6_UnmarshalChecksLengthFirst ==
    (outcome # "none") =>
        /\ ptype \in FixedTypes
        /\ (Len(buf) # SIZE[ptype]) => (outcome = "length_error" /\ touched = {})
        /\ (Len(buf) = SIZE[ptype]) =>
               (outcome = "ok" /\ touched \subseteq 0..(Len(buf) - 1))

\* one byte too many for SystemState, whose check is on sizeof(SystemState)
C6_Witness ==
    /\ ptype = "SystemState"
    /\ Len(buf) = SIZE["SystemState"] + 1
    /\ outcome = "length_error"
    /\ touched = {}

\* C7: waitForPacket<T> returns the decode of the first packet delivered whose
\* id is T's.  The packets delivered before it carry another id: they are
\* dropped, neither returned nor reported, and they do not end the wait.  The
\* packets are delivered in the order the transport received them: the call
\* finds the packets queued before it started, each read takes the oldest
\* undelivered packet and leaves the later ones queued in their order.
C7_WaitForPacketFirstMatch ==
    /\ []((call.kind = "waitForPacket") =>
            LET awaited(pkt) == pkt.header.packet_id = ID[call.type]
                n == Len(log)
            IN /\ \A i \in 1..(n - 1) : ~awaited(log[i])
               /\ (pc = "awaiting") =>
                      /\ \A i \in 1..n : ~awaited(log[i])
                      /\ ret = NoValue
               /\ (pc = "matched") =>
                      /\ n > 0
                      /\ awaited(log[n])
                      /\ ret = [kind |-> "packet",
                                value |-> decode(call.type, log[n].data)]
               /\ (n > 0 /\ ~awaited(log[n])) =>
                      pc \in {"awaiting", "timeout", "transport_error"})
    /\ [][(pc = "idle" /\ call'.kind = "waitForPacket") =>
             (pc' = "awaiting" /\ rx' = rx /\ log' = <<>>)]_vars
    /\ [][(call.kind = "waitForPacket" /\ pc = "awaiting"
              /\ Len(rx') < Len(rx)) =>
             /\ rx' = Tail(rx)
             /\ log' = logAppend(log, Head(rx))
             /\ (Head(rx).header.packet_id # ID[call.type]) =>
                    (pc' = "awaiting" /\ ret' = NoValue)
             /\ (Head(rx).header.packet_id = ID[call.type]) =>
                    (pc' \in {"matched", "length_error"})]_vars

\* an acknowledge was delivered first and dropped, the BootMode delivered
\* behind it was returned
C7_Witness ==
    /\ pc = "matched"
    /\ call.kind = "waitForPacket"
    /\ call.type = "BootMode"
    /\ Len(log) = 2
    /\ log[1].header.packet_id = ID["Acknowledge"]
    /\ log[2].data = <<3>>
    /\ ret = [kind |-> "packet", value |-> [boot_mode |-> 3]]

\* C8: with a finite deadline the allowed time is fixed when the call starts.
\* A packet is returned only while the time spent does not exceed the
\* deadline, a discarded packet leaves the time spent and the deadline as they
\* are, a timeout is raised only once the time spent exceeds the deadline, and
\* every such call ends, whatever packets keep arriving.
C8_DeadlineFixedAtEntry ==
    /\ []((pc = "matched" /\ call.deadline # NoDeadline) =>
              elapsed <= call.deadline)
    /\ []((pc = "timeout" /\ call.deadline # NoDeadline) =>
              /\ elapsed > call.deadline
              /\ ret = [kind |-> "TimeoutError"])
    /\ [][(pc = "awaiting" /\ pc' = "awaiting") =>
              (call' = call /\ elapsed' >= elapsed)]_vars
    /\ ((pc = "awaiting" /\ call.deadline # NoDeadline) ~> (pc # "awaiting"))

C8_Witness ==
    /\ pc = "timeout"
    /\ call.kind = "waitForPacket"
    /\ call.type = "BootMode"
    /\ call.deadline = 1
    /\ elapsed = 2
    /\ Len(log) = 2
    /\ \A i \in 1..2 : log[i].header.packet_id # ID["BootMode"]
    /\ rx # <<>>
    /\ Head(rx).header.packet_id = ID["BootMode"]

\* C9: waitForAck returns the result code, success or failure, of the first
\* acknowledge delivered whose acked id and both acked checksum bytes equal
\* the header's.  Acknowledges for another packet, or for the same id with a
\* different checksum, and packets of other types are dropped: they leave the
\* call waiting.  The acknowledges are delivered in the order the transport
\* received them, those queued before the call started included.
C9_WaitForAckFirstMatching ==
    /\ []((call.kind = "waitForAck") =>
            LET h == call.header
                acks(pkt) ==
                    /\ pkt.header.packet_id = ID["Acknowledge"]
                    /\ Len(pkt.data) = SIZE["Acknowledge"]
                    /\ pkt.data[1] = h.packet_id
                    /\ pkt.data[2] = h.payload_checksum_lsb
                    /\ pkt.data[3] = h.payload_checksum_msb
                n == Len(log)
            IN /\ \A i \in 1..(n - 1) : ~acks(log[i])
               /\ (pc = "awaiting") =>
                      /\ \A i \in 1..n : ~acks(log[i])
                      /\ ret = NoValue
               /\ (pc = "matched") =>
                      /\ n > 0
                      /\ acks(log[n])
                      /\ ret = [kind |-> "result", value |-> log[n].data[4]]
               /\ (n > 0 /\ acks(log[n])) => (pc = "matched")
               /\ (n > 0 /\ ~acks(log[n])
                     /\ (log[n].header.packet_id # ID["Acknowledge"]
                         \/ Len(log[n].data) = SIZE["Acknowledge"])) =>
                      pc \in {"awaiting", "timeout", "transport_error"})
    /\ [][(pc = "idle" /\ call'.kind = "waitForAck") =>
             (pc' = "awaiting" /\ rx' = rx /\ log' = <<>>)]_vars
    /\ [][(call.kind = "waitForAck" /\ pc = "awaiting" /\ Len(rx') < Len(rx)) =>
             LET pkt == Head(rx)
                 other ==
                     \/ pkt.header.packet_id # ID["Acknowledge"]
                     \/ /\ Len(pkt.data) = SIZE["Acknowledge"]
                        /\ \/ pkt.data[1] # call.header.packet_id
                           \/ pkt.data[2] # call.header.payload_checksum_lsb
                           \/ pkt.data[3] # call.header.payload_checksum_msb
             IN /\ rx' = Tail(rx)
                /\ log' = logAppend(log, pkt)
                /\ other => (pc' = "awaiting" /\ ret' = NoValue)
                /\ ~other => (pc' \in {"matched", "length_error"})]_vars

\* the acknowledge for another checksum was delivered first and dropped
C9_Witness ==
    /\ pc = "matched"
    /\ call.kind = "waitForAck"
    /\ Len(log) = 2
    /\ log[1].data = <<1, 2, 4, ACK_FAILED_UNKNOWN_PACKET>>
    /\ log[2].data = <<1, 2, 3, ACK_FAILED_UNKNOWN_PACKET>>
    /\ ret = [kind |-> "result", value |-> ACK_FAILED_UNKNOWN_PACKET]

\* C10: validateAck returns normally if and only if the matching acknowledge
\* carries ACK_SUCCESS.  With any other code it raises AcknowledgeFailure
\* carrying the acknowledge as received: acked id, acked checksum bytes and the
\* exact code.  A timeout of the wait comes out as a timeout, never as an
\* acknowledge failure.
C10_ValidateAck ==
    /\ (pc = "ack_failure") => (call.kind = "validateAck")
    /\ (call.kind = "validateAck") =>
        LET h == call.header
            acks(pkt) ==
                /\ pkt.header.packet_id = ID["Acknowledge"]
                /\ Len(pkt.data) = SIZE["Acknowledge"]
                /\ pkt.data[1] = h.packet_id
                /\ pkt.data[2] = h.payload_checksum_lsb
                /\ pkt.data[3] = h.payload_checksum_msb
            n == Len(log)
        IN /\ (pc = "matched") =>
                  /\ n > 0
                  /\ acks(log[n])
                  /\ log[n].data[4] = ACK_SUCCESS
                  /\ ret = [kind |-> "void"]
           /\ (pc = "ack_failure") =>
                  /\ n > 0
                  /\ acks(log[n])
                  /\ log[n].data[4] # ACK_SUCCESS
                  /\ ret = [kind |-> "AcknowledgeFailure",
                            ack |-> [acked_packet_id |-> h.packet_id,
                                     acked_payload_checksum_lsb |->
                                         h.payload_checksum_lsb,
                                     acked_payload_checksum_msb |->
                                         h.payload_checksum_msb,
                                     result |-> log[n].data[4]]]
           /\ (n > 0 /\ acks(log[n])) => (pc \in {"matched", "ack_failure"})
           /\ (pc = "timeout") =>
                  /\ ret = [kind |-> "TimeoutError"]
                  /\ \A i \in 1..n : ~acks(log[i])

C10_Witness ==
    /\ pc = "ack_failure"
    /\ call.kind = "validateAck"
    /\ Len(log) = 2
    /\ log[1].data = <<2, 2, 3, ACK_SUCCESS>>
    /\ log[2].data = <<1, 2, 3, ACK_FAILED_UNKNOWN_PACKET>>
    /\ ret.ack.result = ACK_FAILED_UNKNOWN_PACKET

\* C11: writePacket hands the transport, in one write, the five bytes of the
\* header it returns followed by the marshalled payload.  The returned header
\* carries the type's ID and the marshalled size, is valid and validates the
\* payload written.  A failed write ends the call with the transport failure and
\* no second write is attempted.
C11_WritePacket ==
    /\ (pc = "writing") => (tx = <<>>)
    /\ (pc = "returned") =>
          LET h == ret.value
              w == tx[1].bytes
              pl == SubSeq(w, 6, Len(w))
          IN /\ Len(tx) = 1
             /\ tx[1].ok
             /\ Len(w) = 5 + Len(pl)
             /\ <<w[1], w[2], w[3], w[4], w[5]>> =
                    <<h.header_checksum, h.packet_id, h.payload_length,
                      h.payload_checksum_lsb, h.payload_checksum_msb>>
             /\ pl = marshalled(call.type, obj, 0)
             /\ pl = marshalled(call.type, obj, 170)
             /\ h.packet_id = sendID(call.type)
             /\ h.payload_length = Len(pl)
             /\ (call.type # "PacketMock") => (Len(pl) = SIZE[call.type])
             /\ isValid(h)
             /\ isPacketValid(h, pl)
    /\ (pc = "transport_error" /\ call.kind = "writePacket") =>
          /\ Len(tx) = 1
          /\ ~tx[1].ok
          /\ ret = [kind |-> "TransportError"]

C11_Witness ==
    /\ pc = "returned"
    /\ call.type = "PacketMock"
    /\ Len(tx) = 1
    /\ SubSeq(tx[1].bytes, 6, 9) = <<0, 1, 2, 3>>
    /\ Len(tx[1].bytes) = 9
    /\ ret.value.packet_id = 5
    /\ ret.value.payload_length = 4

\* C12 as stated: a wait called with the no-deadline value never fails with a
\* timeout; it ends only by returning a matching packet or by a transport
\* failure.
C12_NoDeadlineNeverTimesOut ==
    (pc \in Terminal /\ call.kind \in {"waitForPacket", "waitForAck"}
        /\ call.deadline = NoDeadline) =>
        pc \in {"matched", "transport_error"}

\* C12, amended: a wait called with base::Time() is never ended by the time it
\* spends or by the packets it discards: its deadline never expires and, as
\* long as the transport holds a packet to read, the call does not time out.
\* It raises TimeoutError only when a read finds the transport empty.
C12_NoDeadlineTimesOutOnlyWhenEmpty ==
    /\ []((pc = "awaiting" /\ call.deadline = NoDeadline) => ~expired)
    /\ [][(pc = "awaiting" /\ call.deadline = NoDeadline /\ pc' = "timeout") =>
              (rx = <<>> /\ ret' = [kind |-> "TimeoutError"])]_vars

C12_Witness ==
    /\ pc = "awaiting"
    /\ call.kind = "waitForPacket"
    /\ call.type = "BootMode"
    /\ call.deadline = NoDeadline
    /\ elapsed = MaxTime
    /\ Len(log) = MaxLog
    /\ rx # <<>>

\* C13: a wait that ends with a timeout gives no packet value: the caller gets
\* TimeoutError, and no awaited packet was obtained.  A value is returned only
\* on a match, and a match takes a packet: waitForPacket with base::Time() on a
\* transport that delivers nothing cannot return, it ends with TimeoutError
\* (or a transport failure) unless a packet arrives.
C13_TimeoutReturnsNoValue ==
    /\ []((pc = "timeout") =>
              /\ ret = [kind |-> "TimeoutError"]
              /\ (call.kind = "waitForPacket") =>
                     \A i \in 1..Len(log) :
                         log[i].header.packet_id # ID[call.type])
    /\ []((ret.kind \in {"packet", "result", "void"}) =>
              (pc = "matched" /\ log # <<>>))
    /\ ((pc = "awaiting" /\ call.deadline = NoDeadline /\ rx = <<>>)
            ~> (pc \in {"timeout", "transport_error"} \/ rx # <<>>))

C13_Witness ==
    /\ pc = "timeout"
    /\ call.kind = "waitForPacket"
    /\ call.deadline = NoDeadline
    /\ log = <<>>
    /\ rx = <<>>
    /\ elapsed = 0
    /\ ret = [kind |-> "TimeoutError"]

\* C20 as stated: a call of waitForPacket or waitForAck ends in exactly one of
\* MATCHED, DEADLINE_EXCEEDED or TRANSPORT_ERROR, and a packet whose id is the
\* awaited one always leads to MATCHED.
C20_OnlyThreeEndings ==
    (call.kind \in {"waitForPacket", "waitForAck"}) =>
        /\ (pc \in Terminal) => (pc \in {"matched", "timeout", "transport_error"})
        /\ (call.kind = "waitForPacket" /\ log # <<>>
               /\ log[Len(log)].header.packet_id = ID[call.type]) =>
               (pc = "matched")

\* C20, amended: each packet a call of waitForPacket or waitForAck obtains
\* leads to exactly one of MATCHED (the id is the awaited one, the length the
\* type's SIZE and, for waitForAck, the acknowledge matches the header; a value
\* is returned), a decode failure (the id is the awaited one, the length is
\* not SIZE: the call ends with the decoder's length error) or DISCARD (the
\* call keeps waiting, nothing is returned).  A call ends in exactly one of
\* MATCHED, timeout, TRANSPORT_ERROR or that decode failure, and MATCHED and
\* the decode failure are reached only by obtaining a packet.
C20_CallOutcomes ==
    /\ [](pc \in {"idle", "awaiting"} \cup Terminal)
    /\ []((call.kind \in {"waitForPacket", "waitForAck"}) =>
              pc \in {"awaiting", "matched", "timeout", "transport_error",
                      "length_error"})
    /\ [][(pc = "awaiting" /\ call.kind \in {"waitForPacket", "waitForAck"}) =>
            LET p == Head(rx)
                awaited == p.header.packet_id = ID[call.type]
                sized == Len(p.data) = SIZE[call.type]
                accepted ==
                    /\ awaited
                    /\ sized
                    /\ (call.kind = "waitForAck") =>
                           /\ p.data[1] = call.header.packet_id
                           /\ p.data[2] = call.header.payload_checksum_lsb
                           /\ p.data[3] = call.header.payload_checksum_msb
            IN IF Len(rx') < Len(rx)
               THEN /\ accepted =>
                           (pc' = "matched" /\ ret'.kind \in {"packet", "result"})
                    /\ (awaited /\ ~sized) =>
                           (pc' = "length_error" /\ ret'.kind = "length_error")
                    /\ (~awaited \/ (sized /\ ~accepted)) =>
                           (pc' = "awaiting" /\ ret' = NoValue)
               ELSE pc' \in {"awaiting", "timeout", "transport_error"}]_vars

C20_Witness ==
    /\ pc = "length_error"
    /\ call.kind = "waitForAck"
    /\ Len(log) = 2
    /\ log[1].data = <<1, 2, 4, ACK_FAILED_UNKNOWN_PACKET>>
    /\ log[2].data = <<1, 2, 3, ACK_SUCCESS, 0>>

\* C14: PacketPeriods::unmarshal fails with a length error, having read no
\* byte, when the range is shorter than 2 bytes or when its length less 2 is
\* not a multiple of 5.  A range of exactly 2 bytes gives the empty mapping, and
\* a range of 2 + 5k bytes gives the mapping of the record ids (first byte of a
\* record) to the periods (its next four bytes, little-endian).
C14_PacketPeriodsUnmarshal ==
    (ptype = "PacketPeriods") =>
        LET n == Len(buf)
            k == (n - 2) \div 5
            idOf(j) == buf[2 + 5 * j + 1]
            periodOf(j) ==
                <<buf[2 + 5 * j + 2] + 256 * buf[2 + 5 * j + 3],
                  buf[2 + 5 * j + 4] + 256 * buf[2 + 5 * j + 5]>>
            last(id) == CHOOSE j \in 0..(k - 1) :
                            /\ idOf(j) = id
                            /\ \A i \in (j + 1)..(k - 1) : idOf(i) # id
        IN /\ (n < 2 \/ (n - 2) % 5 # 0) =>
                  (outcome = "length_error" /\ touched = {} /\ result = NoValue)
           /\ (n >= 2 /\ (n - 2) % 5 = 0) => (outcome \in {"running", "ok"})
           /\ (outcome \in {"running", "ok"}) =>
                  (touched \subseteq 2..(n - 1) /\ pos <= n)
           /\ (outcome = "ok") =>
                  /\ (n = 2) => (DOMAIN result = {})
                  /\ DOMAIN result = {idOf(j) : j \in 0..(k - 1)}
                  /\ \A id \in DOMAIN result : result[id] = periodOf(last(id))

C14_Witness ==
    /\ ptype = "PacketPeriods"
    /\ outcome = "ok"
    /\ buf = <<1, 1, 1, 1, 2, 3, 4, 2, 5, 6, 7, 8>>
    /\ DOMAIN result = {1, 2}
    /\ result[1] = <<513, 1027>>
    /\ result[2] = <<1541, 2055>>

\* C15: DetailedSatellites::unmarshal fails with a length error, having read
\* no byte, when the length of the range is not a multiple of 7.  On 7k bytes
\* it appends exactly k records in wire order, record j from bytes 7j..7j+6
\* (system, prn, frequencies, elevation, little-endian azimuth, snr), none for
\* an empty range, and its loop ends after k turns.
C15_DetailedSatellitesUnmarshal ==
    /\ []((ptype = "DetailedSatellites") =>
            LET n == Len(buf)
                done == pos \div 7
                first == Len(result) - done
            IN /\ (n % 7 # 0) => (outcome = "length_error" /\ touched = {})
               /\ (n % 7 = 0) => (outcome \in {"running", "ok"})
               /\ (outcome \in {"running", "ok"}) =>
                      /\ pos % 7 = 0
                      /\ pos <= n
                      /\ first >= 0
                      /\ touched = 0..(pos - 1)
                      /\ \A j \in 0..(done - 1) :
                             result[first + j + 1] =
                                 [system |-> buf[7 * j + 1], prn |-> buf[7 * j + 2],
                                  frequencies |-> buf[7 * j + 3],
                                  elevation |-> buf[7 * j + 4],
                                  azimuth |-> buf[7 * j + 5] + 256 * buf[7 * j + 6],
                                  snr |-> buf[7 * j + 7]]
               /\ (outcome = "ok") => (pos = n))
    /\ [][(ptype = "DetailedSatellites" /\ outcome = "running") =>
            \/ (outcome' = "running" /\ pos' = pos + 7
                   /\ Len(result') = Len(result) + 1)
            \/ (outcome' = "ok" /\ pos = Len(buf) /\ result' = result)]_vars
    /\ [][(ptype' = "DetailedSatellites" /\ outcome = "vector"
              /\ outcome' = "running" /\ buf' = <<>>) =>
            (result' = result /\ pos' = Len(buf'))]_vars
    /\ ((ptype = "DetailedSatellites" /\ outcome = "running") ~> (outcome = "ok"))

C15_Witness ==
    /\ ptype = "DetailedSatellites"
    /\ outcome = "ok"
    /\ buf = <<1, 2, 3, 4, 2, 1, 5, 6, 7, 8, 9, 4, 3, 10>>
    /\ result =
           <<[system |-> 1, prn |-> 2, frequencies |-> 3, elevation |-> 4,
              azimuth |-> 258, snr |-> 5],
             [system |-> 6, prn |-> 7, frequencies |-> 8, elevation |-> 9,
              azimuth |-> 772, snr |-> 10]>>

PermanentTypes ==
    {"PacketTimerPeriod", "BaudRates", "Alignment", "FilterOptions",
     "MagneticCalibrationValues"}

\* C16: for PacketTimerPeriod, BaudRates, Alignment, FilterOptions and
\* MagneticCalibrationValues the struct unmarshal returns has permanent = 0
\* whatever the byte at offset 0 is, and marshal writes the struct's permanent
\* field as it is at offset 0.
C16_PermanentWriteOnly ==
    (ptype \in PermanentTypes) =>
        /\ (outcome = "object" /\ buf # <<>>) => (obj.permanent = 0)
        /\ (outcome \in {"marshalled", "ok"}) => (out[1] = obj.permanent)
        /\ (outcome = "ok") => (result.permanent = 0)

C16_Witness ==
    /\ ptype = "FilterOptions"
    /\ outcome = "ok"
    /\ obj.permanent = 255
    /\ out[1] = 255
    /\ result.permanent = 0

\* C17 as stated: unmarshal(marshal(x)) equals x in every field, for every x
\* of the six types that have both operations.
C17_RoundTripIdentity ==
    (ptype \in MarshalTypes /\ outcome = "ok") => (result = obj)

\* C17: unmarshal(marshal(x)) succeeds and equals x in every field except
\* that permanent comes back as 0 and the reserved word of BaudRates comes
\* back as 0; BootMode, which has neither, comes back as it was.  The round
\* trip is the identity exactly on the values whose permanent flag (and
\* BaudRates reserved word) is 0.
C17_RoundTripButPermanent ==
    (ptype \in MarshalTypes /\ outcome # "object" /\ outcome # "marshalled") =>
        LET expected ==
                CASE ptype = "BootMode" -> obj
                  [] ptype = "BaudRates" ->
                         [obj EXCEPT !.permanent = 0, !.reserved = <<0, 0>>]
                  [] OTHER -> [obj EXCEPT !.permanent = 0]
        IN /\ outcome = "ok"
           /\ pos = SIZE[ptype]
           /\ result = expected
           /\ (result = obj) <=>
                  \/ ptype = "BootMode"
                  \/ /\ obj.permanent = 0
                     /\ (ptype = "BaudRates") => (obj.reserved = <<0, 0>>)

C17_Witness ==
    /\ ptype = "Alignment"
    /\ outcome = "ok"
    /\ obj.permanent = 1
    /\ result = [obj EXCEPT !.permanent = 0]
    /\ result # obj

\* C18: marshal writes all SIZE bytes of a configuration packet and writes
\* zero at every reserved position, whatever the struct's reserved fields
\* hold: bytes 13..16 of BaudRates, byte 3 and bytes 8..16 of FilterOptions.
C18_ReservedBytesZero ==
    (ptype \in PermanentTypes /\ outcome = "marshalled") =>
        /\ pos = SIZE[ptype]
        /\ (ptype = "BaudRates") => (\A i \in 13..16 : out[i + 1] = 0)
        /\ (ptype = "FilterOptions") =>
               (\A i \in {3} \cup (8..16) : out[i + 1] = 0)

\* C19: a default-constructed header validates nothing: isValid() is false
\* and isPacketValid is false for every byte range, the empty one included.
C19_DefaultHeaderInvalid ==
    (hop = "default" \/ (hop = "isPacketValid" /\ arg_id = 0 /\ edits = 0)) =>
        /\ ~isValid(header)
        /\ ~isPacketValid(header, payload)
        /\ ~isPacketValid(header, <<>>)
        /\ \A p \in Payloads : ~isPacketValid(header, p)

\* the test's case: the fresh header and the empty range
C19_Witness ==
    /\ hop = "default"
    /\ payload = <<>>
    /\ header.header_checksum = 1
    /\ header.payload_length = 0
    /\ ~isValid(header)
    /\ ~isPacketValid(header, payload)

\* C21: a packet read by a wait call, returned or discarded, is never
\* delivered again: the calls read the stream strictly forwards, each packet
\* is taken from the transport by at most one call, a call starts having seen
\* nothing and sees only packets that follow those taken before, and a value
\* is returned only from the packet just taken.
C21_DiscardedPacketsAreGone ==
    /\ [](/\ taken <= Len(stream)
          /\ rx = SubSeq(stream, taken + 1, Len(stream)))
    /\ [][/\ taken' >= taken
          /\ (taken' # taken) =>
                 /\ taken' = taken + 1
                 /\ pc = "awaiting"
                 /\ rx' = Tail(rx)
                 /\ log' = logAppend(log, stream[taken + 1])
          /\ (pc = "idle" /\ pc' = "awaiting") => (log' = <<>> /\ taken' = taken)
          /\ (log' # log /\ log' # <<>>) => (taken' = taken + 1)
          /\ (ret' # ret /\ ret'.kind \in {"packet", "result", "void",
                                          "AcknowledgeFailure"}) =>
                 /\ taken' = taken + 1
                 /\ stream[taken'].header.packet_id = ID[call.type]
          /\ (pc \in Terminal /\ pc' = "idle") => (rx' = rx /\ taken' = taken)
         ]_vars

\* stream [A, B]: a call returned B having discarded A, and the call that
\* waits for A afterwards times out
C21_Witness ==
    /\ stream = <<makePacket(2, <<3>>), makePacket(0, <<1, 2, 3, 0>>)>>
    /\ taken = 2
    /\ previous = "matched"
    /\ pc = "timeout"
    /\ call.kind = "waitForPacket"
    /\ call.type = "BootMode"
    /\ log = <<>>

\* C22: after a call failed (timeout, acknowledge failure, length error) the
\* transport is as the call left it and the caller is back to the state in
\* which any call can be made; the next call starts its own clock, times out
\* by its own deadline only, and ends with the value of the first packet it
\* takes that matches what it waits for.
C22_TransportUsableAfterFailure ==
    /\ []((pc = "idle") =>
             (call = NoCall /\ elapsed = 0 /\ log = <<>> /\ ret = NoValue))
    /\ [][LET fits(pkt) ==
                  IF call.kind = "waitForPacket"
                  THEN /\ pkt.header.packet_id = ID[call.type]
                       /\ Len(pkt.data) = SIZE[call.type]
                  ELSE /\ pkt.header.packet_id = 0
                       /\ Len(pkt.data) = 4
                       /\ pkt.data[1] = call.header.packet_id
                       /\ pkt.data[2] = call.header.payload_checksum_lsb
                       /\ pkt.data[3] = call.header.payload_checksum_msb
          IN /\ (pc \in Failures /\ pc' # pc) =>
                    /\ pc' = "idle"
                    /\ previous' = pc
                    /\ rx' = rx
                    /\ stream' = stream
                    /\ taken' = taken
             /\ (previous \in Failures /\ pc = "idle" /\ pc' # "idle") =>
                    /\ pc' = "awaiting"
                    /\ elapsed' = 0
                    /\ rx' = rx
             /\ (previous \in Failures /\ pc = "awaiting" /\ taken' = taken + 1
                    /\ fits(stream[taken'])) =>
                    IF call.kind = "waitForPacket"
                    THEN /\ pc' = "matched"
                         /\ ret' = [kind |-> "packet",
                                    value |-> [boot_mode |-> stream[taken'].data[1]]]
                              \/ (call.type = "Acknowledge" /\ ret'.kind = "packet")
                    ELSE IF call.kind = "waitForAck"
                    THEN /\ pc' = "matched"
                         /\ ret' = [kind |-> "result", value |-> stream[taken'].data[4]]
                    ELSE IF stream[taken'].data[4] = 0
                         THEN pc' = "matched" /\ ret' = [kind |-> "void"]
                         ELSE pc' = "ack_failure" /\ ret'.kind = "AcknowledgeFailure"
             /\ (previous \in Failures /\ pc = "awaiting" /\ pc' = "timeout") =>
                    \/ call.deadline # NoDeadline /\ elapsed > call.deadline
                    \/ call.deadline = NoDeadline /\ rx = <<>>
         ]_vars

\* validateAck failed on a failure acknowledge, and the waitForPacket<BootMode>
\* that followed returned the BootMode packet
C22_Witness ==
    /\ previous = "ack_failure"
    /\ stream = <<makePacket(0, <<1, 2, 3, 6>>), makePacket(2, <<3>>)>>
    /\ taken = 2
    /\ pc = "matched"
    /\ call.kind = "waitForPacket"
    /\ ret = [kind |-> "packet", value |-> [boot_mode |-> 3]]

\* C23: the ID constants of the payload structs are pairwise distinct except
\* for HotStartReset and ColdStartReset, which both have id 5; and the three
\* commands RestoreFactorySettings, HotStartReset and ColdStartReset marshal
\* pairwise different sequences of 4 bytes, so that only the payload tells
\* the two resets apart.
C23_IdIdentifiesTypeButResets ==
    (outcome \in {"same_id", "other_id"}) =>
        /\ (outcome = "same_id") <=>
               \/ ptype = result.type
               \/ {ptype, result.type} = {"HotStartReset", "ColdStartReset"}
        /\ (ptype = "HotStartReset" /\ result.type = "ColdStartReset") =>
               (header.packet_id = 5 /\ arg_id = 5)
        /\ (ptype \in CommandTypes /\ result.type \in CommandTypes) =>
               /\ Len(payload) = 4
               /\ Len(buf) = 4
               /\ (payload = buf) <=> (ptype = result.type)

C23_Witness ==
    /\ outcome = "same_id"
    /\ ptype = "HotStartReset"
    /\ result.type = "ColdStartReset"
    /\ payload = <<126, 122, 5, 33>>
    /\ buf = <<183, 56, 93, 154>>

\* C24: PacketPeriods::marshal writes permanent, clear_existing and then, for
\* each entry of the map in iteration order (ascending id), the id byte and
\* the period as 4 little-endian bytes; it returns the position 2 + 5k; and
\* PacketPeriods::unmarshal of what it wrote returns a map equal to the one
\* marshalled.
C24_PacketPeriodsMarshal ==
    (obj # NoValue /\ outcome \in {"marshalling", "marshalled", "running",
                                   "ok", "length_error"}) =>
        LET m == obj.periods
            k == Cardinality(DOMAIN m)
            rank(id) == Cardinality({j \in DOMAIN m : j < id})
            written == IF outcome = "marshalling" THEN (pos - 2) \div 5 ELSE k
        IN /\ out[1] = obj.permanent
           /\ out[2] = obj.clear_existing
           /\ \A id \in DOMAIN m :
                  (rank(id) < written) =>
                      LET o == 2 + 5 * rank(id)
                      IN /\ out[o + 1] = id
                         /\ out[o + 2] = m[id][1] % 256
                         /\ out[o + 3] = m[id][1] \div 256
                         /\ out[o + 4] = m[id][2] % 256
                         /\ out[o + 5] = m[id][2] \div 256
           /\ (outcome = "marshalled") => (pos = 2 + 5 * k)
           /\ (outcome \in {"running", "ok"}) => (buf = out)
           /\ outcome # "length_error"
           /\ (outcome = "ok") => (result = m)

\* the test's map { 1: 0x04030201, 2: 0x08070605 }, marshalled and read back
C24_Witness ==
    /\ outcome = "ok"
    /\ obj # NoValue
    /\ obj.permanent = 1
    /\ obj.clear_existing = 1
    /\ DOMAIN obj.periods = {1, 2}
    /\ obj.periods[1] = <<513, 1027>>
    /\ obj.periods[2] = <<1541, 2055>>
    /\ out = <<1, 1, 1, 1, 2, 3, 4, 2, 5, 6, 7, 8>>
    /\ result = obj.periods

\* C25: for N in {16, 32, 64} and every N-bit value v, writeN stores
\* (v >> 8i) & 0xFF at position i for every i in 0..N/8-1, so that readN of
\* the bytes written gives v back.
C25_WriteThenRead ==
    (outcome \in {"written", "read"}) =>
        LET N == obj.width
            words == IF N = 16 THEN <<obj.value>> ELSE obj.value
            byte(i) == IF i % 2 = 0 THEN words[i \div 2 + 1] % 256
                       ELSE words[i \div 2 + 1] \div 256
        IN /\ \A i \in 0..(N \div 8 - 1) : out[pos + i + 1] = byte(i)
           /\ (outcome = "read") => (result.value = obj.value)

\* C26: SystemState::unmarshal of 100 bytes takes system_status from bytes
\* 0..1, filter_status from 2..3, unix_time_seconds from 4..7,
\* unix_time_microseconds from 8..11, lat_lon_z[i] from the 8 bytes at 12+8i,
\* velocity_ned[i] at 36+4i, body_acceleration_xyz[i] at 48+4i, g at 60,
\* rpy[i] at 64+4i, angular_velocity[i] at 76+4i and lat_lon_z_stddev[i] at
\* 88+4i, little-endian; these ranges are pairwise disjoint and cover 0..99,
\* so that a change of one byte changes exactly one field.
C26_SystemStateLayout ==
    /\ [](LET Vec(name, off, w) == {<<name, i, off + w * i, w>> : i \in 0..2}
              Layout ==
                  {<<"system_status", 0, 0, 2>>, <<"filter_status", 0, 2, 2>>,
                   <<"unix_time_seconds", 0, 4, 4>>,
                   <<"unix_time_microseconds", 0, 8, 4>>, <<"g", 0, 60, 4>>}
                  \cup Vec("lat_lon_z", 12, 8) \cup Vec("velocity_ned", 36, 4)
                  \cup Vec("body_acceleration_xyz", 48, 4) \cup Vec("rpy", 64, 4)
                  \cup Vec("angular_velocity", 76, 4)
                  \cup Vec("lat_lon_z_stddev", 88, 4)
              Scalars == {"system_status", "filter_status", "unix_time_seconds",
                          "unix_time_microseconds", "g"}
              bytesOf(f) == f[3]..(f[3] + f[4] - 1)
              get(r, f) == IF f[1] \in Scalars THEN r[f[1]] ELSE r[f[1]][f[2] + 1]
              wire(b, f) ==
                  IF f[4] = 2 THEN b[f[3] + 1] + 256 * b[f[3] + 2]
                  ELSE [w \in 1..(f[4] \div 2) |->
                           b[f[3] + 2 * w - 1] + 256 * b[f[3] + 2 * w]]
          IN (ptype = "SystemState") =>
                 /\ outcome = "ok"
                 /\ Len(buf) = 100
                 /\ \A f \in Layout : get(result, f) = wire(buf, f)
                 /\ \A f, h \in Layout :
                        (f # h) => (bytesOf(f) \cap bytesOf(h) = {})
                 /\ UNION {bytesOf(f) : f \in Layout} = 0..99
                 /\ readOffsets("SystemState") = 0..99)
    /\ [][LET Ranges ==
                  {<<"system_status", 0, 0, 1>>, <<"filter_status", 0, 2, 3>>,
                   <<"unix_time_seconds", 0, 4, 7>>,
                   <<"unix_time_microseconds", 0, 8, 11>>, <<"g", 0, 60, 63>>}
                  \cup {<<v[1], v[2], v[4] - v[5] + 1, v[4]>> :
                           v \in {<<n[1], i, n[2], n[2] + n[3] * (i + 1) - 1, n[3]>> :
                                     n \in {<<"lat_lon_z", 12, 8>>,
                                            <<"velocity_ned", 36, 4>>,
                                            <<"body_acceleration_xyz", 48, 4>>,
                                            <<"rpy", 64, 4>>,
                                            <<"angular_velocity", 76, 4>>,
                                            <<"lat_lon_z_stddev", 88, 4>>},
                                     i \in 0..2}}
              Scalars == {"system_status", "filter_status", "unix_time_seconds",
                          "unix_time_microseconds", "g"}
              get(r, f) == IF f[1] \in Scalars THEN r[f[1]] ELSE r[f[1]][f[2] + 1]
          IN (ptype = "SystemState" /\ ptype' = "SystemState" /\ buf' # buf) =>
                 \E i \in 0..99 :
                     /\ buf'[i + 1] # buf[i + 1]
                     /\ \A j \in 0..99 : (j # i) => (buf'[j + 1] = buf[j + 1])
                     /\ \A f \in Ranges :
                            (get(result', f) # get(result, f))
                                <=> (f[3] <= i /\ i <= f[4])
                     /\ Cardinality({f \in Ranges : f[3] <= i /\ i <= f[4]}) = 1
         ]_vars

\* byte 60 changed: g changed and nothing else did
C26_Witness ==
    /\ ptype = "SystemState"
    /\ pos = 60
    /\ touched = {60}
    /\ buf[61] = 61
    /\ result.g = <<61 + 256 * 61, 62 + 256 * 63>>
    /\ result.rpy[1] = <<64 + 256 * 65, 66 + 256 * 67>>

\* C27: in every valid header the five bytes sum to 0 modulo 256, and
\* changing exactly one of the five bytes to any other value gives a header
\* that is not valid.
C27_SingleByteChangeInvalidates ==
    /\ [](isValid(header) =>
             /\ (header.header_checksum + header.packet_id
                 + header.payload_length + header.payload_checksum_lsb
                 + header.payload_checksum_msb) % 256 = 0
             /\ \A f \in HeaderFields :
                    \A v \in Byte \ {header[f]} :
                        ~isValid([header EXCEPT ![f] = v]))
    /\ [][(isValid(header) /\ header' # header /\ hop' = "assign") =>
              ~isValid(header')]_vars

\* the header of packet 1 over "0123456" with its packet_id set to 2
C27_Witness ==
    /\ hop = "assign"
    /\ payload = <<48, 49, 50, 51, 52, 53, 54>>
    /\ arg_id = 1
    /\ header = [Header(1, payload) EXCEPT !.packet_id = 2]
    /\ isValid(Header(1, payload))
    /\ ~isValid(header)

\* C28: Header(packet_id, begin, end) stores the range's length modulo 256;
\* over a payload of 256 bytes the header has payload_length 0, is valid, and
\* isPacketValid on that same payload is false.
C28_LengthWrapsAt256 ==
    (hop = "Header") =>
        /\ header.payload_length = Len(payload) % 256
        /\ isValid(header)
        /\ (Len(payload) = 256) =>
               /\ header.payload_length = 0
               /\ ~isPacketValid(header, payload)
               /\ header.payload_checksum_lsb = crc(payload) % 256
               /\ header.payload_checksum_msb = crc(payload) \div 256

\* the 256 bytes 0, 1, ..., 255 under packet id 5
C28_Witness ==
    /\ hop = "Header"
    /\ arg_id = 5
    /\ Len(payload) = 256
    /\ payload[1] = 0
    /\ payload[256] = 255
    /\ header.payload_length = 0
    /\ isValid(header)
    /\ ~isPacketValid(header, payload)

\* C29: DetailedSatellites::unmarshal appends to the caller's vector and never
\* clears it.  The call leaves the vector as it was before the first record is
\* decoded, and so it is after a length error; every turn of the loop keeps the
\* elements the vector holds, in their order, and puts the record decoded at
\* the current position behind them; the return changes nothing.  After a call
\* on 7k bytes the vector is its previous elements followed by k records.
C29_AppendsNeverClears ==
    /\ [][(outcome = "vector" /\ ptype' = "DetailedSatellites") =>
             /\ result' = result
             /\ outcome' = IF Len(buf') % 7 # 0 THEN "length_error" ELSE "running"]_vars
    /\ [][(ptype = "DetailedSatellites" /\ outcome = "length_error"
              /\ ptype' = "DetailedSatellites") => result' = result]_vars
    /\ [][(ptype = "DetailedSatellites" /\ outcome = "running"
              /\ outcome' = "running") =>
             /\ Len(result') = Len(result) + 1
             /\ SubSeq(result', 1, Len(result)) = result
             /\ result'[Len(result')] = SatelliteInfoUnmarshal(buf, pos)]_vars
    /\ [][(ptype = "DetailedSatellites" /\ outcome = "running"
              /\ outcome' = "ok") => result' = result]_vars
    /\ []((ptype = "DetailedSatellites" /\ outcome \in {"running", "ok"}) =>
             /\ Len(result) >= pos \div 7
             /\ SubSeq(result, 1, Len(result) - pos \div 7) \in PriorInfos
             /\ outcome = "ok" => Len(result) - Len(buf) \div 7 \in {0, 1})
    /\ []((ptype = "DetailedSatellites" /\ outcome = "length_error") =>
             result \in PriorInfos)

\* a vector that held one record, after the test's two records were appended
C29_Witness ==
    /\ ptype = "DetailedSatellites"
    /\ outcome = "ok"
    /\ buf = SatellitesTestVector
    /\ Len(result) = 3
    /\ result[1] = [system |-> 100, prn |-> 101, frequencies |-> 102,
                    elevation |-> 103, azimuth |-> 104 + 256 * 105, snr |-> 106]
    /\ result[2].system = 1
    /\ result[3].system = 6

\* C30: when an id occurs in several records of a PacketPeriods payload, the
\* mapping unmarshal returns holds for it the period of the last such record
\* in wire order: every turn of the loop stores the period of its record under
\* the record's id, replacing what was stored, and leaves the other ids alone.
\* The mapping has one entry per distinct id, so at most k entries for k
\* records, and k entries exactly when the record ids all differ.
C30_LastRecordWins ==
    /\ []((ptype = "PacketPeriods" /\ outcome = "ok") =>
             LET k == (Len(buf) - 2) \div 5
                 idOf(j) == buf[5 * j + 3]
                 periodOf(j) == <<buf[5 * j + 4] + 256 * buf[5 * j + 5],
                                  buf[5 * j + 6] + 256 * buf[5 * j + 7]>>
                 distinct == \A i, j \in 0..(k - 1) : (i # j) => (idOf(i) # idOf(j))
             IN /\ \A j \in 0..(k - 1) :
                       (\A i \in (j + 1)..(k - 1) : idOf(i) # idOf(j)) =>
                           (result[idOf(j)] = periodOf(j))
                /\ Cardinality(DOMAIN result)
                       = Cardinality({idOf(j) : j \in 0..(k - 1)})
                /\ Cardinality(DOMAIN result) <= k
                /\ (Cardinality(DOMAIN result) = k) <=> distinct)
    /\ [][(ptype = "PacketPeriods" /\ outcome = "running"
              /\ outcome' = "running") =>
             /\ DOMAIN result' = DOMAIN result \cup {buf[pos + 1]}
             /\ result'[buf[pos + 1]] =
                    <<buf[pos + 2] + 256 * buf[pos + 3],
                      buf[pos + 4] + 256 * buf[pos + 5]>>
             /\ \A id \in DOMAIN result \ {buf[pos + 1]} :
                    result'[id] = result[id]]_vars

\* id 7 with period 0x80000001, then id 7 with period 2
C30_Witness ==
    /\ ptype = "PacketPeriods"
    /\ outcome = "ok"
    /\ buf = PeriodsRepeatedId
    /\ DOMAIN result = {7}
    /\ result[7] = <<2, 0>>

====
